---- MODULE Spec2Model ----
(***************************************************************************)
(* Anchor: claim extraction (anchor/classifier/extractor.py) and the       *)
(* Layer3 verification pipeline (anchor/tracker/*.py), as state machines.  *)
(*                                                                         *)
(*   SpecPure     the pure functions: the verdicts of verdict_deriver.py,  *)
(*                the overall score, the relation mapper's filter          *)
(*   Spec         one extracted post driven through scheduler passes       *)
(*   SpecExtract  Extractor.extract, one database write at a time          *)
(*   SpecProfile  the passes on Author rows with nothing to track          *)
(*   SpecPass     one whole pass, Steps 0 to 9, on one extracted post      *)
(*   SpecQuality  the passes on two posts that may share a claim           *)
(*   SpecEnrich   ContextEnricher.enrich and extract on one RawPost        *)
(*   SpecVerify   the passes on facts with validity windows                *)
(*   SpecTopics   two interleaved extractions resolving Topic names        *)
(***************************************************************************)
EXTENDS Integers, Sequences, FiniteSets, TLC

VARIABLES
    call,          \* a call of a pure function, or the objects of a small specification
    now,           \* the wall clock read by _utcnow()
    raw_post,      \* the RawPost row (id 1)
    other_posts,   \* the RawPost rows of other posts (ids 2, 3, ...)
    authors,       \* Author rows (platform ids)
    facts,         \* Fact rows, by id
    conclusions,   \* Conclusion rows, by id
    solutions,     \* Solution rows, by id
    logics,        \* Logic rows, in insertion (id) order
    fact_evaluations,      \* FactEvaluation rows, in insertion order
    conclusion_verdicts,   \* ConclusionVerdict rows, in insertion order
    solution_assessments,  \* SolutionAssessment rows, in insertion order
    post_quality,  \* PostQualityAssessment rows, in insertion order
    author_stats,  \* AuthorStats rows, in insertion order
    pc,            \* the position of the handler that is running
    todo,          \* the items the running operator has selected and not yet processed
    active_facts,  \* scheduler local: the facts Step 1 selected in this pass
    committed,     \* the tables as of the last commit (what a rollback restores)
    ext,           \* Extractor.extract's locals: the parsed LLM output and the id maps
    last,          \* the last operator call: what it was given and what it found
    passes         \* completed scheduler passes, and the row counts around the last one

vars == <<call, now, raw_post, other_posts, authors, facts, conclusions, solutions, logics,
          fact_evaluations, conclusion_verdicts, solution_assessments,
          post_quality, author_stats, pc, todo, active_facts, committed, ext, last, passes>>

tables == <<raw_post, other_posts, authors, facts, conclusions, solutions, logics,
            fact_evaluations, conclusion_verdicts, solution_assessments,
            post_quality, author_stats>>

\* the tables as one value, and a rollback to such a value
Snapshot ==
    [raw_post |-> raw_post, other_posts |-> other_posts, authors |-> authors,
     facts |-> facts,
     conclusions |-> conclusions, solutions |-> solutions, logics |-> logics,
     fact_evaluations |-> fact_evaluations, conclusion_verdicts |-> conclusion_verdicts,
     solution_assessments |-> solution_assessments,
     post_quality |-> post_quality, author_stats |-> author_stats]

Rollback ==
    /\ raw_post' = committed.raw_post
    /\ other_posts' = committed.other_posts
    /\ authors' = committed.authors
    /\ facts' = committed.facts
    /\ conclusions' = committed.conclusions
    /\ solutions' = committed.solutions
    /\ logics' = committed.logics
    /\ fact_evaluations' = committed.fact_evaluations
    /\ conclusion_verdicts' = committed.conclusion_verdicts
    /\ solution_assessments' = committed.solution_assessments
    /\ post_quality' = committed.post_quality
    /\ author_stats' = committed.author_stats

\* None: "null" where the value is text, -1 where it is an id, an index or a date
NULL == "null"
None == -1

\* ------------------------------------------------------------------ bounds
PureFacts == 2      \* fact ids a Logic of SpecPure may reference
PureLen == 2        \* longest id list of a Logic of SpecPure
MaxVerdicts == 3    \* longest verdict list given to _aggregate_solution_verdict
MaxTime == 1        \* the clock stops here; a pass starts later than the last one ended

\* ------------------------------------------------------------------ enums
EvaluationResult == {"true", "false", "uncertain", "unavailable"}
VerdictResult == {"confirmed", "refuted", "partial", "pending", "expired", "unverifiable"}
FactStatus == {"pending", "verified_true", "verified_false", "unverifiable"}
ConclusionStatus == {"pending", "confirmed", "refuted", "unverifiable"}
SolutionStatus == {"pending", "validated", "invalidated", "unverifiable"}

\* ------------------------------------------------------------------ helpers
Range(s) == {s[i] : i \in DOMAIN s}

SeqsUpTo(S, n) == UNION {[1..k -> S] : k \in 0..n}

\* a Python dict with keys in K and values in V
Dicts(K, V) == UNION {[D -> V] : D \in SUBSET K}

\* ------------------------------------------------------------------ verdict_deriver.py
\* evaluations.get(fact_id, EvaluationResult.UNAVAILABLE)
get_result(evaluations, fact_id) ==
    IF fact_id \in DOMAIN evaluations THEN evaluations[fact_id] ELSE "unavailable"

\* a plausible slip: CONFIRMED demands every result TRUE (the module docstring's wording)
_derive_confirm_all_true(supporting_ids, assumption_ids, evaluations) ==
    LET supporting_results == [fid \in Range(supporting_ids) |-> get_result(evaluations, fid)]
        assumption_results == [fid \in Range(assumption_ids) |-> get_result(evaluations, fid)]
        all_results == Range(supporting_results) \cup Range(assumption_results)
        nonempty == DOMAIN supporting_results \cup DOMAIN assumption_results # {}
    IN  IF nonempty /\ \A r \in all_results : r = "unavailable" THEN "unverifiable"
        ELSE IF \E r \in Range(assumption_results) : r = "false" THEN "refuted"
        ELSE IF \E r \in Range(supporting_results) : r = "false" THEN "refuted"
        ELSE IF nonempty /\ \A r \in all_results : r = "true" THEN "confirmed"
        ELSE IF \E r \in all_results : r = "true" THEN "partial"
        ELSE "pending"

\* _derive: the verdict (the logic_trace is a rendering of the same dicts)
_derive(supporting_ids, assumption_ids, evaluations) ==
    LET supporting_results == [fid \in Range(supporting_ids) |-> get_result(evaluations, fid)]
        assumption_results == [fid \in Range(assumption_ids) |-> get_result(evaluations, fid)]
        all_results == Range(supporting_results) \cup Range(assumption_results)
        nonempty == DOMAIN supporting_results \cup DOMAIN assumption_results # {}
    IN  IF nonempty /\ \A r \in all_results : r = "unavailable" THEN "unverifiable"
        ELSE IF \E r \in Range(assumption_results) : r = "false" THEN "refuted"
        ELSE IF \E r \in Range(supporting_results) : r = "false" THEN "refuted"
        ELSE IF /\ nonempty
                /\ \A r \in all_results : r \in {"true", "unavailable"}
                /\ \E r \in all_results : r = "true" THEN "confirmed"
        ELSE IF \E r \in all_results : r = "true" THEN "partial"
        ELSE "pending"

\* a plausible slip: the any-CONFIRMED test placed before the any-REFUTED test
_aggregate_partial_first(verdicts) ==
    IF \A i \in DOMAIN verdicts : verdicts[i] = "confirmed" THEN "confirmed"
    ELSE IF \E i \in DOMAIN verdicts : verdicts[i] = "confirmed" THEN "partial"
    ELSE IF \E i \in DOMAIN verdicts : verdicts[i] = "refuted" THEN "refuted"
    ELSE IF \A i \in DOMAIN verdicts : verdicts[i] = "unverifiable" THEN "unverifiable"
    ELSE "pending"

\* _aggregate_solution_verdict
_aggregate_solution_verdict(verdicts) ==
    IF \A i \in DOMAIN verdicts : verdicts[i] = "confirmed" THEN "confirmed"
    ELSE IF \E i \in DOMAIN verdicts : verdicts[i] = "refuted" THEN "refuted"
    ELSE IF \E i \in DOMAIN verdicts : verdicts[i] = "confirmed" THEN "partial"
    ELSE IF \A i \in DOMAIN verdicts : verdicts[i] = "unverifiable" THEN "unverifiable"
    ELSE "pending"

\* a plausible slip: PARTIAL closes the conclusion like CONFIRMED (as it does a solution)
_verdict_to_conclusion_status_partial_confirms(verdict) ==
    IF verdict \in {"confirmed", "refuted", "unverifiable"} THEN verdict
    ELSE IF verdict = "partial" THEN "confirmed" ELSE "pending"

\* _verdict_to_conclusion_status
_verdict_to_conclusion_status(verdict) ==
    IF verdict \in {"confirmed", "refuted", "unverifiable"} THEN verdict ELSE "pending"

\* a plausible slip: PARTIAL keeps the solution open (as it does a conclusion)
_verdict_to_solution_status_partial_pending(verdict) ==
    CASE verdict = "confirmed" -> "validated"
      [] verdict = "refuted" -> "invalidated"
      [] verdict = "unverifiable" -> "unverifiable"
      [] OTHER -> "pending"

\* _verdict_to_solution_status
_verdict_to_solution_status(verdict) ==
    CASE verdict = "confirmed" -> "validated"
      [] verdict = "partial" -> "validated"
      [] verdict = "refuted" -> "invalidated"
      [] verdict = "unverifiable" -> "unverifiable"
      [] OTHER -> "pending"

\* ------------------------------------------------------------------ extractor.py
\* _parse_time_note: a note that holds a date (>= 0) parses to it; no note (None)
\* and a note dateutil cannot read (Unreadable) give None
Unreadable == -2
_parse_time_note(note) == IF note >= 0 THEN note ELSE None

\* _save_fact: the Fact row it adds
_save_fact(ef, raw_post_id) ==
    [raw_post_id |-> raw_post_id, canonical_claim |-> ef.canonical_claim,
     is_verifiable |-> ef.is_verifiable,
     validity_start |-> _parse_time_note(ef.validity_start_note),
     validity_end |-> _parse_time_note(ef.validity_end_note),
     status |-> IF ef.is_verifiable THEN "pending" ELSE "unverifiable"]

\* Conclusion(...) of Step 2a; status and the monitoring block take the column
\* defaults. A post's url stands for the post: source_url is the post's id.
NewConclusion(ec, author_id, post_id, posted_at) ==
    [author_id |-> author_id, canonical_claim |-> ec.canonical_claim,
     source_url |-> post_id, posted_at |-> posted_at,
     conclusion_type |-> ec.conclusion_type, status |-> "pending",
     monitoring_source_org |-> NULL, monitoring_end |-> None]

\* Solution(...) of Step 2b
NewSolution(es, author_id) ==
    [author_id |-> author_id, status |-> "pending", simulated_action_note |-> NULL, monitoring_end |-> None]

\* a plausible slip: the ids computed from the indices, the "if i in m" left out
Translate_unchecked(indices, m) == [k \in DOMAIN indices |-> indices[k] + 1]

\* [m[i] for i in indices if i in m]
Translate(indices, m) ==
    LET known == SelectSeq(indices, LAMBDA i : i \in DOMAIN m)
    IN  [k \in DOMAIN known |-> m[known[k]]]

\* a plausible slip: the id computed from the index instead of looked up
Lookup_unchecked(m, i) == IF i # None THEN i + 1 ELSE None

\* m.get(i) if i is not None else None
Lookup(m, i) == IF i # None /\ i \in DOMAIN m THEN m[i] ELSE None

\* a plausible slip: the "continue" after the warning left out
NewLogic_no_skip(el, fact_id_map, conclusion_id_map, solution_id_map) ==
    IF el.logic_type = "inference"
    THEN <<[logic_type |-> "inference",
            conclusion_id |-> Lookup(conclusion_id_map, el.target_index),
            solution_id |-> None,
            supporting_fact_ids |-> Translate(el.supporting_fact_indices, fact_id_map),
            assumption_fact_ids |-> Translate(el.assumption_fact_indices, fact_id_map),
            source_conclusion_ids |-> <<>>,
            logic_completeness |-> NULL, one_sentence_summary |-> NULL]>>
    ELSE <<[logic_type |-> "derivation",
            conclusion_id |-> None,
            solution_id |-> Lookup(solution_id_map, el.solution_index),
            supporting_fact_ids |-> <<>>,
            assumption_fact_ids |-> <<>>,
            source_conclusion_ids |->
                Translate(el.source_conclusion_indices, conclusion_id_map),
            logic_completeness |-> NULL, one_sentence_summary |-> NULL]>>

\* Step 3: the Logic rows added for one extracted logic: one, or none when its
\* target is unknown. A list column left unset reads back as the empty list
\* (json.loads(x or "[]")).
NewLogic(el, fact_id_map, conclusion_id_map, solution_id_map) ==
    IF el.logic_type = "inference"
    THEN IF Lookup(conclusion_id_map, el.target_index) = None THEN <<>>
         ELSE <<[logic_type |-> "inference",
                 conclusion_id |-> Lookup(conclusion_id_map, el.target_index),
                 solution_id |-> None,
                 supporting_fact_ids |-> Translate(el.supporting_fact_indices, fact_id_map),
                 assumption_fact_ids |-> Translate(el.assumption_fact_indices, fact_id_map),
                 source_conclusion_ids |-> <<>>,
                 logic_completeness |-> NULL, one_sentence_summary |-> NULL]>>
    ELSE IF Lookup(solution_id_map, el.solution_index) = None THEN <<>>
         ELSE <<[logic_type |-> "derivation",
                 conclusion_id |-> None,
                 solution_id |-> Lookup(solution_id_map, el.solution_index),
                 supporting_fact_ids |-> <<>>,
                 assumption_fact_ids |-> <<>>,
                 source_conclusion_ids |->
                     Translate(el.source_conclusion_indices, conclusion_id_map),
                 logic_completeness |-> NULL, one_sentence_summary |-> NULL]>>

\* a plausible slip: a commit where extract flushes
flush_commits(after) == after

\* session.flush(): the rows written so far get their ids; what is committed stays
flush(after) == committed

NoExt == [result |-> NULL]
NoCall == [op |-> "none"]

\* Author(...) as the extractor constructs it: the profile columns at their defaults
NewAuthor(platform_id) ==
    [platform_id |-> platform_id, profile_fetched |-> FALSE, credibility_tier |-> None]

\* _get_or_create_author: the authors table after it
_get_or_create_author(post) ==
    IF post.author_platform_id # NULL
       /\ \E a \in DOMAIN authors : authors[a].platform_id = post.author_platform_id
    THEN authors
    ELSE Append(authors, NewAuthor(post.author_platform_id))

\* the id of the Author row _get_or_create_author returns
_author_id(post) ==
    IF post.author_platform_id # NULL
       /\ \E a \in DOMAIN authors : authors[a].platform_id = post.author_platform_id
    THEN CHOOSE a \in DOMAIN authors :
            /\ authors[a].platform_id = post.author_platform_id
            /\ \A b \in DOMAIN authors :
                  authors[b].platform_id = post.author_platform_id => a <= b
    ELSE Len(authors) + 1

\* extract, up to the LLM answer: the post is already processed
ExtractSkip ==
    /\ pc = "idle" /\ raw_post.is_processed
    /\ last' = [op |-> "extract", out |-> "already_processed"]
    /\ UNCHANGED <<call, now, tables, pc, todo, active_facts, committed, ext, passes>>

\* a plausible slip: the failure branch marks the post like the irrelevant branch
ExtractNoResult_marks ==
    /\ pc = "idle" /\ ~raw_post.is_processed
    /\ raw_post' = [raw_post EXCEPT !.is_processed = TRUE]
    /\ UNCHANGED <<other_posts, authors, facts, conclusions, solutions, logics, fact_evaluations,
                   conclusion_verdicts, solution_assessments, post_quality, author_stats>>
    /\ committed' = Snapshot'
    /\ \E why \in {"llm_none", "parse_none"} : last' = [op |-> "extract", out |-> why]
    /\ UNCHANGED <<call, now, pc, todo, active_facts, ext, passes>>

\* extract: _call_llm returned None, or _parse_extraction returned None
ExtractNoResult ==
    /\ pc = "idle" /\ ~raw_post.is_processed
    /\ \E why \in {"llm_none", "parse_none"} : last' = [op |-> "extract", out |-> why]
    /\ UNCHANGED <<call, now, tables, pc, todo, active_facts, committed, ext, passes>>

\* a plausible slip: the irrelevant branch commits without is_processed = True
ExtractIrrelevant_unmarked ==
    /\ pc = "idle" /\ ~raw_post.is_processed
    /\ UNCHANGED tables
    /\ committed' = Snapshot'
    /\ passes' = [passes EXCEPT !.new_posts = TRUE]
    /\ last' = [op |-> "extract", out |-> "irrelevant"]
    /\ UNCHANGED <<call, now, pc, todo, active_facts, ext>>

\* extract: the LLM declares the post irrelevant; mark it processed and commit
ExtractIrrelevant ==
    /\ pc = "idle" /\ ~raw_post.is_processed
    /\ raw_post' = [raw_post EXCEPT !.is_processed = TRUE]
    /\ UNCHANGED <<other_posts, authors, facts, conclusions, solutions, logics, fact_evaluations,
                   conclusion_verdicts, solution_assessments, post_quality, author_stats>>
    /\ committed' = Snapshot'
    /\ passes' = [passes EXCEPT !.new_posts = TRUE]
    /\ last' = [op |-> "extract", out |-> "irrelevant"]
    /\ UNCHANGED <<call, now, pc, todo, active_facts, ext>>

\* a plausible slip: the is_processed test at the top of extract left out
ExtractBegin_no_guard(Outputs) ==
    /\ pc = "idle"
    /\ \E result \in Outputs :
          ext' = [result |-> result, author_id |-> _author_id(raw_post),
                  fact_id_map |-> <<>>,
                  conclusion_id_map |-> <<>>, solution_id_map |-> <<>>, done |-> 0]
    /\ authors' = _get_or_create_author(raw_post)
    /\ pc' = "ext_facts"
    /\ last' = [op |-> "extract", out |-> "relevant"]
    /\ UNCHANGED <<call, now, raw_post, other_posts, facts, conclusions, solutions, logics,
                   fact_evaluations, conclusion_verdicts, solution_assessments,
                   post_quality, author_stats, todo, active_facts, passes>>
    /\ committed' = flush(Snapshot')

\* extract: a relevant result; resolve the author and start writing the graph
ExtractBegin(Outputs) ==
    /\ pc = "idle" /\ ~raw_post.is_processed
    /\ \E result \in Outputs :
          ext' = [result |-> result, author_id |-> _author_id(raw_post),
                  fact_id_map |-> <<>>,
                  conclusion_id_map |-> <<>>, solution_id_map |-> <<>>, done |-> 0]
    /\ authors' = _get_or_create_author(raw_post)
    /\ pc' = "ext_facts"
    /\ last' = [op |-> "extract", out |-> "relevant"]
    /\ UNCHANGED <<call, now, raw_post, other_posts, facts, conclusions, solutions, logics,
                   fact_evaluations, conclusion_verdicts, solution_assessments,
                   post_quality, author_stats, todo, active_facts, passes>>
    /\ committed' = flush(Snapshot')

\* the local index (0-based) of the next item of a list, and the map with it added
NextIdx(m) == Cardinality(DOMAIN m)
Mapped(m, id) == [i \in DOMAIN m \cup {NextIdx(m)} |-> IF i \in DOMAIN m THEN m[i] ELSE id]

\* Step 1: one Fact
ExtractFact ==
    /\ pc = "ext_facts"
    /\ IF NextIdx(ext.fact_id_map) < Len(ext.result.facts)
       THEN /\ facts' = Append(facts, _save_fact(ext.result.facts[NextIdx(ext.fact_id_map) + 1], 1))
            /\ ext' = [ext EXCEPT !.fact_id_map = Mapped(@, Len(facts) + 1)]
            /\ pc' = pc
       ELSE /\ pc' = "ext_conclusions"
            /\ UNCHANGED <<facts, ext>>
    /\ last' = [op |-> "extract", out |-> "fact"]
    /\ UNCHANGED <<call, now, raw_post, other_posts, authors, conclusions, solutions, logics,
                   fact_evaluations, conclusion_verdicts, solution_assessments,
                   post_quality, author_stats, todo, active_facts, passes>>
    /\ committed' = flush(Snapshot')

\* Step 2a: one Conclusion
ExtractConclusion ==
    /\ pc = "ext_conclusions"
    /\ IF NextIdx(ext.conclusion_id_map) < Len(ext.result.conclusions)
       THEN /\ conclusions' = Append(conclusions,
                   NewConclusion(ext.result.conclusions[NextIdx(ext.conclusion_id_map) + 1],
                                 ext.author_id, 1, raw_post.posted_at))
            /\ ext' = [ext EXCEPT !.conclusion_id_map = Mapped(@, Len(conclusions) + 1)]
            /\ pc' = pc
       ELSE /\ pc' = "ext_solutions"
            /\ UNCHANGED <<conclusions, ext>>
    /\ last' = [op |-> "extract", out |-> "conclusion"]
    /\ UNCHANGED <<call, now, raw_post, other_posts, authors, facts, solutions, logics,
                   fact_evaluations, conclusion_verdicts, solution_assessments,
                   post_quality, author_stats, todo, active_facts, passes>>
    /\ committed' = flush(Snapshot')

\* Step 2b: one Solution
ExtractSolution ==
    /\ pc = "ext_solutions"
    /\ IF NextIdx(ext.solution_id_map) < Len(ext.result.solutions)
       THEN /\ solutions' = Append(solutions,
                   NewSolution(ext.result.solutions[NextIdx(ext.solution_id_map) + 1],
                               ext.author_id))
            /\ ext' = [ext EXCEPT !.solution_id_map = Mapped(@, Len(solutions) + 1)]
            /\ pc' = pc
       ELSE /\ pc' = "ext_logics"
            /\ UNCHANGED <<solutions, ext>>
    /\ last' = [op |-> "extract", out |-> "solution"]
    /\ UNCHANGED <<call, now, raw_post, other_posts, authors, facts, conclusions, logics,
                   fact_evaluations, conclusion_verdicts, solution_assessments,
                   post_quality, author_stats, todo, active_facts, passes>>
    /\ committed' = flush(Snapshot')

\* Step 3: one extracted logic, inserted or skipped
ExtractLogic ==
    /\ pc = "ext_logics"
    /\ IF ext.done < Len(ext.result.logics)
       THEN LET row == NewLogic(ext.result.logics[ext.done + 1], ext.fact_id_map,
                                ext.conclusion_id_map, ext.solution_id_map)
            IN  /\ logics' = logics \o row
                /\ ext' = [ext EXCEPT !.done = @ + 1]
                /\ pc' = pc
       ELSE /\ pc' = "ext_mark"
            /\ UNCHANGED <<logics, ext>>
    /\ last' = [op |-> "extract", out |-> "logic"]
    /\ UNCHANGED <<call, now, raw_post, other_posts, authors, facts, conclusions, solutions,
                   fact_evaluations, conclusion_verdicts, solution_assessments,
                   post_quality, author_stats, todo, active_facts, committed, passes>>

\* Step 4: is_processed = True, then the one commit of the extraction
ExtractMark ==
    /\ pc = "ext_mark"
    /\ raw_post' = [raw_post EXCEPT !.is_processed = TRUE]
    /\ UNCHANGED <<other_posts, authors, facts, conclusions, solutions, logics, fact_evaluations,
                   conclusion_verdicts, solution_assessments, post_quality, author_stats>>
    /\ committed' = Snapshot'
    /\ pc' = "idle"
    /\ ext' = NoExt
    /\ passes' = [passes EXCEPT !.new_posts = TRUE]
    /\ last' = [op |-> "extract", out |-> "committed"]
    /\ UNCHANGED <<call, now, todo, active_facts>>

\* a flush raises part-way: extract does not catch it, and the caller's
\* "async with AsyncSessionLocal()" closes the session, which rolls back
ExtractFail ==
    /\ pc \in {"ext_facts", "ext_conclusions", "ext_solutions", "ext_logics", "ext_mark"}
    /\ Rollback
    /\ pc' = "idle"
    /\ ext' = NoExt
    /\ last' = [op |-> "extract", out |-> "raised"]
    /\ UNCHANGED <<call, now, todo, active_facts, committed, passes>>

\* ------------------------------------------------------------------ condition_verifier.py
\* chat_completion returned None, or the text held no JSON
LlmNone == "llm_none"

\* what the fact-check LLM may put in "result"
ResultStrings == EvaluationResult \cup {"unverifiable", "unknown", "maybe"}

\* verify: the alias table, then EvaluationResult(result_str) with its ValueError fallback
ParseResult(result_str) ==
    LET aliased == IF result_str \in {"unverifiable", "unknown"} THEN "unavailable"
                   ELSE result_str
    IN  IF aliased \in EvaluationResult THEN aliased ELSE "unavailable"

\* a plausible slip: an uncertain result closes the fact as UNVERIFIABLE
UpdatedFactStatus_uncertain_closes(status, result_val) ==
    CASE result_val = "true" -> "verified_true"
      [] result_val = "false" -> "verified_false"
      [] OTHER -> "unverifiable"

\* verify: the if/elif chain that updates fact.status
UpdatedFactStatus(status, result_val) ==
    CASE result_val = "true" -> "verified_true"
      [] result_val = "false" -> "verified_false"
      [] result_val = "unavailable" -> "unverifiable"
      [] OTHER -> status

\* ConditionVerifier.verify on fact f, the LLM answering `answer`
verify(f, answer) ==
    IF ~facts[f].is_verifiable \/ answer = LlmNone
    THEN UNCHANGED <<facts, fact_evaluations>>
    ELSE /\ facts' = [facts EXCEPT ![f].status = UpdatedFactStatus(@, ParseResult(answer))]
         /\ fact_evaluations' = Append(fact_evaluations,
                [fact_id |-> f, result |-> ParseResult(answer), evaluated_at |-> now])

\* ------------------------------------------------------------------ conclusion_monitor.py, solution_simulator.py
\* the dates an LLM may name as monitoring_end
MonitorEnds == {None, MaxTime}

\* the monitor's answer: none (the call or the parse failed), or the fields it names
MonitorAnswers ==
    {[ok |-> FALSE]} \cup [ok : {TRUE}, org : {NULL, "org"}, monitoring_end : MonitorEnds]
SimulatorAnswers ==
    {[ok |-> FALSE]} \cup [ok : {TRUE}, note : {"note"}, monitoring_end : MonitorEnds]

\* ConclusionMonitor.setup on conclusion c
setup(c, answer) ==
    IF conclusions[c].conclusion_type # "predictive" \/ ~answer.ok
    THEN UNCHANGED conclusions
    ELSE conclusions' = [conclusions EXCEPT ![c].monitoring_source_org = answer.org,
                                            ![c].monitoring_end = answer.monitoring_end]

\* SolutionSimulator.simulate on solution s
simulate(s, answer) ==
    IF ~answer.ok
    THEN UNCHANGED solutions
    ELSE solutions' = [solutions EXCEPT ![s].simulated_action_note = answer.note,
                                        ![s].monitoring_end = answer.monitoring_end]

\* ------------------------------------------------------------------ verdict_deriver.py, the operators
\* _load_inference_logic: the ids of the Logic it returns: the inference Logic of c
\* with the highest id, or none
_load_inference_logic(c) ==
    LET mine == {l \in DOMAIN logics :
                    logics[l].logic_type = "inference" /\ logics[l].conclusion_id = c}
    IN  {l \in mine : \A k \in mine : k <= l}

\* _load_latest_fact_evaluations: the dicts the query may give; the rows come ordered
\* by evaluated_at alone, so rows of one fact with equal times come in either order
_load_latest_fact_evaluations(fact_ids) ==
    LET rows(f) == {i \in DOMAIN fact_evaluations : fact_evaluations[i].fact_id = f}
        newest(f) == {i \in rows(f) : \A k \in rows(f) :
                         fact_evaluations[k].evaluated_at <= fact_evaluations[i].evaluated_at}
        found == {f \in fact_ids : rows(f) # {}}
    IN  {ev \in [found -> EvaluationResult] :
            \A f \in found : \E i \in newest(f) : ev[f] = fact_evaluations[i].result}

\* a plausible slip: the monitoring gate left out
MonitoringNotReached_never(row) == FALSE

\* derive_conclusion / derive_solution: "monitoring_end and now < monitoring_end"
MonitoringNotReached(row) == row.monitoring_end # None /\ now < row.monitoring_end

\* VerdictDeriver.derive_conclusion on conclusion c
derive_conclusion(c) ==
    IF conclusions[c].conclusion_type = "predictive" /\ MonitoringNotReached(conclusions[c])
    THEN UNCHANGED <<conclusions, conclusion_verdicts>>
    ELSE IF _load_inference_logic(c) = {}
         THEN UNCHANGED <<conclusions, conclusion_verdicts>>
         ELSE LET logic == logics[CHOOSE l \in _load_inference_logic(c) : TRUE]
              IN  \E evaluations \in _load_latest_fact_evaluations(
                         Range(logic.supporting_fact_ids) \cup Range(logic.assumption_fact_ids)) :
                    LET verdict == _derive(logic.supporting_fact_ids,
                                           logic.assumption_fact_ids, evaluations)
                    IN  /\ conclusion_verdicts' = Append(conclusion_verdicts,
                               [conclusion_id |-> c, verdict |-> verdict, derived_at |-> now,
                                role_fit |-> NULL])
                        /\ conclusions' = [conclusions EXCEPT
                               ![c].status = _verdict_to_conclusion_status(verdict)]

\* the verdicts of every ConclusionVerdict row of the given conclusions, newest first
VerdictsOf(conc_ids) ==
    LET hit == SelectSeq(conclusion_verdicts, LAMBDA v : v.conclusion_id \in conc_ids)
    IN  [i \in DOMAIN hit |-> hit[Len(hit) + 1 - i].verdict]

\* a plausible slip: the two emptiness tests left out, so that an empty verdict
\* list is aggregated: all([]) is True
derive_solution_no_guard(s) ==
    IF solutions[s].status # "pending" \/ MonitoringNotReached(solutions[s])
    THEN UNCHANGED <<solutions, solution_assessments>>
    ELSE LET mine == {l \in DOMAIN logics :
                         logics[l].logic_type = "derivation" /\ logics[l].solution_id = s}
         IN  \E source_conc_ids \in
                    IF mine = {} THEN {<<>>} ELSE {logics[l].source_conclusion_ids : l \in mine} :
               LET verdict == _aggregate_solution_verdict(VerdictsOf(Range(source_conc_ids)))
               IN  /\ solution_assessments' = Append(solution_assessments,
                          [solution_id |-> s, verdict |-> verdict, assessed_at |-> now,
                           role_fit |-> NULL])
                   /\ solutions' = [solutions EXCEPT
                          ![s].status = _verdict_to_solution_status(verdict)]

\* VerdictDeriver.derive_solution on solution s
derive_solution(s) ==
    IF solutions[s].status # "pending" \/ MonitoringNotReached(solutions[s])
    THEN UNCHANGED <<solutions, solution_assessments>>
    ELSE LET mine == {l \in DOMAIN logics :
                         logics[l].logic_type = "derivation" /\ logics[l].solution_id = s}
         IN  \E source_conc_ids \in
                    IF mine = {} THEN {<<>>} ELSE {logics[l].source_conclusion_ids : l \in mine} :
               LET all_verdicts == VerdictsOf(Range(source_conc_ids))
                   verdict == IF source_conc_ids # <<>> /\ all_verdicts # <<>>
                              THEN _aggregate_solution_verdict(all_verdicts)
                              ELSE "pending"
               IN  /\ solution_assessments' = Append(solution_assessments,
                          [solution_id |-> s, verdict |-> verdict, assessed_at |-> now,
                           role_fit |-> NULL])
                   /\ solutions' = [solutions EXCEPT
                          ![s].status = _verdict_to_solution_status(verdict)]

\* ------------------------------------------------------------------ scheduler.py
\* the RawPost table, by id, and Step 8's selection
RawPosts == <<raw_post>> \o other_posts
ProcessedPosts == {p \in DOMAIN RawPosts : RawPosts[p].is_processed}

\* _is_in_validity_window
_is_in_validity_window(fact, t) ==
    /\ ~(fact.validity_start # None /\ t < fact.validity_start)
    /\ ~(fact.validity_end # None /\ t > fact.validity_end)

\* a plausible slip: the status filter left out of Step 1's selection
ActiveFacts_any_status ==
    {f \in DOMAIN facts : /\ facts[f].is_verifiable
                          /\ _is_in_validity_window(facts[f], now)}

\* a plausible slip: the validity window left out of Step 1's selection
ActiveFacts_any_window ==
    {f \in DOMAIN facts : facts[f].status = "pending" /\ facts[f].is_verifiable}

\* Step 1's selection: PENDING, verifiable, inside the validity window
ActiveFacts ==
    {f \in DOMAIN facts : /\ facts[f].status = "pending"
                          /\ facts[f].is_verifiable
                          /\ _is_in_validity_window(facts[f], now)}

\* Step 4a's selection
UnconfiguredConclusions ==
    {c \in DOMAIN conclusions : /\ conclusions[c].conclusion_type = "predictive"
                                /\ conclusions[c].status = "pending"
                                /\ conclusions[c].monitoring_source_org = NULL}

\* Step 4b's selection
UnconfiguredSolutions ==
    {s \in DOMAIN solutions : /\ solutions[s].status = "pending"
                              /\ solutions[s].simulated_action_note = NULL}

\* Step 6: the conclusions of the inference logics that name a fact Step 1 selected
AffectedConclusions ==
    {logics[l].conclusion_id : l \in {k \in DOMAIN logics :
        /\ logics[k].logic_type = "inference"
        /\ (Range(logics[k].supporting_fact_ids) \cup Range(logics[k].assumption_fact_ids))
              \cap active_facts # {}}}

PendingSolutions == {s \in DOMAIN solutions : solutions[s].status = "pending"}

\* what a pass is compared with when it ends
PassStartRecord ==
    [fact_evaluations |-> Len(fact_evaluations),
     conclusion_verdicts |-> Len(conclusion_verdicts),
     solution_assessments |-> Len(solution_assessments),
     post_quality |-> Len(post_quality), author_stats |-> Len(author_stats),
     pending_facts |-> {f \in DOMAIN facts : facts[f].status = "pending"},
     pending_solutions |-> PendingSolutions]

\* the scheduler walks a selection in the order the rows came back: by id
First(S) == CHOOSE x \in S : \A y \in S : x <= y

Steps == {"step0", "step1", "step23", "step7c", "step7s", "step4a", "step4b", "step6c", "step6s", "step8", "step9"}

\* the interval trigger fires: open the session, select Step 1's facts
PassStart ==
    /\ pc = "idle"
    /\ now > passes.ended_at
    /\ pc' = "step1"
    /\ todo' = ActiveFacts
    /\ active_facts' = ActiveFacts
    /\ passes' = [passes EXCEPT !.start = PassStartRecord,
                                !.repeat = passes.completed >= 1 /\ ~passes.new_posts]
    /\ last' = [op |-> "pass_start"]
    /\ UNCHANGED <<call, now, tables, committed, ext>>

\* Step 1: verify one selected fact
Step1Verify ==
    /\ pc = "step1" /\ todo # {}
    /\ \E f \in {First(todo)} : \E answer \in ResultStrings \cup {LlmNone} :
          /\ verify(f, answer)
          /\ todo' = todo \ {f}
          /\ last' = [op |-> "verify", id |-> f, answer |-> answer]
    /\ UNCHANGED <<call, now, raw_post, other_posts, authors, conclusions, solutions, logics,
                   conclusion_verdicts, solution_assessments, post_quality, author_stats,
                   pc, active_facts, committed, ext, passes>>

\* Step 1 is through; Step 4a selects
Step1Done ==
    /\ pc = "step1" /\ todo = {}
    /\ pc' = "step4a"
    /\ todo' = UnconfiguredConclusions
    /\ last' = [op |-> "select"]
    /\ UNCHANGED <<call, now, tables, active_facts, committed, ext, passes>>

\* Step 4a: configure one selected conclusion
Step4aSetup ==
    /\ pc = "step4a" /\ todo # {}
    /\ \E c \in {First(todo)} : \E answer \in MonitorAnswers :
          /\ setup(c, answer)
          /\ todo' = todo \ {c}
          /\ last' = [op |-> "setup", id |-> c, ok |-> answer.ok]
    /\ UNCHANGED <<call, now, raw_post, other_posts, authors, facts, solutions, logics, fact_evaluations,
                   conclusion_verdicts, solution_assessments, post_quality, author_stats,
                   pc, active_facts, committed, ext, passes>>

Step4aDone ==
    /\ pc = "step4a" /\ todo = {}
    /\ pc' = "step4b"
    /\ todo' = UnconfiguredSolutions
    /\ last' = [op |-> "select"]
    /\ UNCHANGED <<call, now, tables, active_facts, committed, ext, passes>>

\* Step 4b: simulate one selected solution
Step4bSimulate ==
    /\ pc = "step4b" /\ todo # {}
    /\ \E s \in {First(todo)} : \E answer \in SimulatorAnswers :
          /\ simulate(s, answer)
          /\ todo' = todo \ {s}
          /\ last' = [op |-> "simulate", id |-> s, ok |-> answer.ok]
    /\ UNCHANGED <<call, now, raw_post, other_posts, authors, facts, conclusions, logics, fact_evaluations,
                   conclusion_verdicts, solution_assessments, post_quality, author_stats,
                   pc, active_facts, committed, ext, passes>>

Step4bDone ==
    /\ pc = "step4b" /\ todo = {}
    /\ pc' = "step6c"
    /\ todo' = AffectedConclusions
    /\ last' = [op |-> "select"]
    /\ UNCHANGED <<call, now, tables, active_facts, committed, ext, passes>>

\* Step 6: derive the verdict of one affected conclusion
Step6Conclusion ==
    /\ pc = "step6c" /\ todo # {}
    /\ \E c \in {First(todo)} :
          /\ derive_conclusion(c)
          /\ todo' = todo \ {c}
          /\ last' = [op |-> "derive_conclusion", id |-> c]
    /\ UNCHANGED <<call, now, raw_post, other_posts, authors, facts, solutions, logics, fact_evaluations,
                   solution_assessments, post_quality, author_stats,
                   pc, active_facts, committed, ext, passes>>

Step6ConclusionsDone ==
    /\ pc = "step6c" /\ todo = {}
    /\ pc' = "step6s"
    /\ todo' = PendingSolutions
    /\ last' = [op |-> "select"]
    /\ UNCHANGED <<call, now, tables, active_facts, committed, ext, passes>>

\* Step 6: derive the assessment of one PENDING solution
Step6Solution ==
    /\ pc = "step6s" /\ todo # {}
    /\ \E s \in {First(todo)} :
          /\ derive_solution(s)
          /\ todo' = todo \ {s}
          /\ last' = [op |-> "derive_solution", id |-> s]
    /\ UNCHANGED <<call, now, raw_post, other_posts, authors, facts, conclusions, logics, fact_evaluations,
                   conclusion_verdicts, post_quality, author_stats,
                   pc, active_facts, committed, ext, passes>>

Step6SolutionsDone ==
    /\ pc = "step6s" /\ todo = {}
    /\ pc' = "step8"
    /\ todo' = ProcessedPosts
    /\ last' = [op |-> "select"]
    /\ UNCHANGED <<call, now, tables, active_facts, committed, ext, passes>>

\* ------------------------------------------------------------------ post_quality_evaluator.py
\* a score is a fraction <<numerator, denominator>> in lowest terms
RECURSIVE GCD(_, _)
GCD(a, b) == IF b = 0 THEN a ELSE GCD(b, a % b)
Rat(n, d) == <<n \div GCD(n, d), d \div GCD(n, d)>>

\* the canonical claims _assess_uniqueness collects for post p of author a
PostClaims(p, a) ==
    {facts[f].canonical_claim :
        f \in {g \in DOMAIN facts : /\ facts[g].raw_post_id = p
                                    /\ facts[g].canonical_claim # NULL}}
    \cup {conclusions[c].canonical_claim :
            c \in {d \in DOMAIN conclusions : /\ conclusions[d].source_url = p
                                              /\ conclusions[d].author_id = a
                                              /\ conclusions[d].canonical_claim # NULL}}

\* the Facts with one of these claims in a post of another author_platform_id, and
\* the Conclusions with one of them by another Author
SimilarFacts(p, a) ==
    {f \in DOMAIN facts :
        /\ facts[f].canonical_claim \in PostClaims(p, a)
        /\ facts[f].raw_post_id # p
        /\ RawPosts[facts[f].raw_post_id].author_platform_id # RawPosts[p].author_platform_id}
SimilarConclusions(p, a) ==
    {c \in DOMAIN conclusions :
        /\ conclusions[c].canonical_claim \in PostClaims(p, a)
        /\ conclusions[c].author_id # a}

\* _assess_uniqueness: the five values it returns, without the note. The set of
\* other authors holds platform ids (from facts) and Author ids (from conclusions).
_assess_uniqueness(p, a) ==
    IF PostClaims(p, a) = {}
    THEN [uniqueness_score |-> Rat(5, 10), is_first_mover |-> FALSE,
          similar_claim_count |-> 0, similar_author_count |-> 0]
    ELSE LET times == {RawPosts[facts[f].raw_post_id].posted_at : f \in SimilarFacts(p, a)}
                      \cup {conclusions[c].posted_at : c \in SimilarConclusions(p, a)}
             others ==
                 Cardinality({RawPosts[facts[f].raw_post_id].author_platform_id :
                                 f \in SimilarFacts(p, a)})
                 + Cardinality({conclusions[c].author_id : c \in SimilarConclusions(p, a)})
         IN  [uniqueness_score |-> Rat(10, 10 + 4 * others),
              is_first_mover |-> \A t \in times : RawPosts[p].posted_at <= t,
              similar_claim_count |->
                  Cardinality(SimilarFacts(p, a)) + Cardinality(SimilarConclusions(p, a)),
              similar_author_count |-> others]

\* what the effectiveness LLM gives back: no response, text that does not parse,
\* a dict whose effectiveness_score is missing (None) or a number of tenths, or a
\* dict whose effectiveness_score float() cannot convert (a word, a list)
EffectivenessAnswers ==
    {[kind |-> "llm_none"], [kind |-> "parse_none"], [kind |-> "bad_shape"]}
    \cup [kind : {"parsed"}, effectiveness_score : {None, 0, 9, 15}]

\* _clamp, on tenths
_clamp(v) == IF v < 0 THEN 0 ELSE IF v > 10 THEN 10 ELSE v

\* _assess_effectiveness: the score it returns when it returns;
\* "parsed.get(...) or 0.5" turns a missing score and a score of 0 into 0.5
_assess_effectiveness(answer) ==
    IF answer.kind \in {"llm_none", "parse_none"}
    THEN Rat(5, 10)
    ELSE IF answer.effectiveness_score \in {None, 0}
         THEN Rat(5, 10)
         ELSE Rat(_clamp(answer.effectiveness_score), 10)

\* the PostQualityAssessment row of post p, if any
Assessed(p) == \E i \in DOMAIN post_quality : post_quality[i].raw_post_id = p

\* the row assess builds
NewAssessment(p, a, answer) ==
    [raw_post_id |-> p, author_id |-> a,
     uniqueness_score |-> _assess_uniqueness(p, a).uniqueness_score,
     is_first_mover |-> _assess_uniqueness(p, a).is_first_mover,
     similar_claim_count |-> _assess_uniqueness(p, a).similar_claim_count,
     similar_author_count |-> _assess_uniqueness(p, a).similar_author_count,
     effectiveness_score |-> _assess_effectiveness(answer)]

\* a plausible slip: the look-up of an existing row left out
assess_no_skip(p, a, answer) ==
    post_quality' = Append(post_quality, NewAssessment(p, a, answer))

\* PostQualityEvaluator.assess, when it returns: skip a post that has its row
assess(p, a, answer) ==
    post_quality' = IF Assessed(p)
                    THEN post_quality
                    ELSE Append(post_quality, NewAssessment(p, a, answer))

\* Step 8's look-up of the post's Author: the first row with its platform id
PostAuthor(p) ==
    IF RawPosts[p].author_platform_id # NULL
       /\ \E a \in DOMAIN authors : authors[a].platform_id = RawPosts[p].author_platform_id
    THEN _author_id(RawPosts[p])
    ELSE None

\* Step 8: one processed post. float() of a score of unexpected shape raises in
\* _assess_effectiveness; nothing catches it before the pass's "except Exception".
Step8Assess(Answers) ==
    /\ pc = "step8" /\ todo # {}
    /\ \E p \in {First(todo)} : \E answer \in Answers :
          IF PostAuthor(p) # None /\ ~Assessed(p) /\ answer.kind = "bad_shape"
          THEN /\ Rollback
               /\ pc' = "idle"
               /\ todo' = {}
               /\ active_facts' = {}
               /\ passes' = [passes EXCEPT !.ended_at = now]
               /\ last' = [op |-> "assess", id |-> p, out |-> "raised"]
               /\ UNCHANGED <<call, now, committed, ext>>
          ELSE /\ IF PostAuthor(p) = None
                  THEN UNCHANGED post_quality
                  ELSE assess(p, PostAuthor(p), answer)
               /\ todo' = todo \ {p}
               /\ last' = [op |-> "assess", id |-> p,
                           out |-> IF PostAuthor(p) = None THEN "no_author"
                                   ELSE IF Assessed(p) THEN "skipped" ELSE "written"]
               /\ UNCHANGED <<call, now, raw_post, other_posts, authors, facts, conclusions,
                              solutions, logics, fact_evaluations, conclusion_verdicts,
                              solution_assessments, author_stats, pc, active_facts,
                              committed, ext, passes>>

\* Step 8 is through; Step 9 selects every Author
Step8Done ==
    /\ pc = "step8" /\ todo = {}
    /\ pc' = "step9"
    /\ todo' = DOMAIN authors
    /\ last' = [op |-> "select"]
    /\ UNCHANGED <<call, now, tables, active_facts, committed, ext, passes>>

\* the effectiveness LLM of the runs that look at the other operators: no response
NoEffectiveness == {[kind |-> "llm_none"]}

\* ------------------------------------------------------------------ author_stats_updater.py
\* a score that is None
NoScore == <<0, 0>>

\* float arithmetic, kept exact
RAdd(x, y) == Rat(x[1] * y[2] + y[1] * x[2], x[2] * y[2])
RMul(x, y) == Rat(x[1] * y[1], x[2] * y[2])
RDiv(x, y) == Rat(x[1] * y[2], x[2] * y[1])

\* sum(...)
RECURSIVE RSum(_)
RSum(s) == IF s = <<>> THEN Rat(0, 1) ELSE RAdd(Head(s), RSum(Tail(s)))

\* _RIGOR_SCORES.get(logic_completeness, 0.0)
_RIGOR_SCORES(c) ==
    CASE c = "complete" -> Rat(10, 10)
      [] c = "partial"  -> Rat(6, 10)
      [] c = "weak"     -> Rat(3, 10)
      [] OTHER          -> Rat(0, 10)

\* _WEIGHTS, in the order of metric_values
_WEIGHTS ==
    <<Rat(20, 100), Rat(15, 100), Rat(20, 100), Rat(15, 100), Rat(15, 100),
      Rat(75, 1000), Rat(75, 1000)>>

_UNDECIDED == {"pending", "expired"}

\* a plausible slip: the weights of the missing dimensions left in the divisor
overall_all_weights(metric_values) ==
    LET available == {k \in DOMAIN metric_values : metric_values[k] # NoScore}
        total_weight == RSum(_WEIGHTS)
        weighted_sum == RSum([k \in DOMAIN metric_values |->
                                IF k \in available THEN RMul(_WEIGHTS[k], metric_values[k])
                                ELSE Rat(0, 1)])
    IN  IF available # {}
        THEN RMul(RDiv(weighted_sum, total_weight), Rat(100, 1))
        ELSE NoScore

\* the overall score of update: the weighted mean of the available metrics, times 100
overall(metric_values) ==
    LET available == {k \in DOMAIN metric_values : metric_values[k] # NoScore}
        total_weight == RSum([k \in DOMAIN metric_values |->
                                IF k \in available THEN _WEIGHTS[k] ELSE Rat(0, 1)])
        weighted_sum == RSum([k \in DOMAIN metric_values |->
                                IF k \in available THEN RMul(_WEIGHTS[k], metric_values[k])
                                ELSE Rat(0, 1)])
    IN  IF available # {}
        THEN RMul(RDiv(weighted_sum, total_weight), Rat(100, 1))
        ELSE NoScore

\* a metric of update: (sum / sample, sample), or (None, 0) without a sample
Metric(sum, sample) ==
    IF sample > 0 THEN [value |-> RDiv(sum, Rat(sample, 1)), sample |-> sample]
    ELSE [value |-> NoScore, sample |-> 0]

\* the columns update computes for author a from the tables
Stats(a) ==
    LET conclusion_ids == {c \in DOMAIN conclusions : conclusions[c].author_id = a}
        predictive_ids == {c \in conclusion_ids : conclusions[c].conclusion_type = "predictive"}
        inference_logics == {l \in DOMAIN logics : /\ logics[l].conclusion_id \in conclusion_ids
                                                    /\ logics[l].logic_type = "inference"}
        fact_ids == UNION {Range(logics[l].supporting_fact_ids)
                           \cup Range(logics[l].assumption_fact_ids) : l \in inference_logics}
        fact_decided == {i \in DOMAIN fact_evaluations :
                            /\ fact_evaluations[i].fact_id \in fact_ids
                            /\ fact_evaluations[i].result \in {"true", "false"}}
        all_verdicts == {i \in DOMAIN conclusion_verdicts :
                            conclusion_verdicts[i].conclusion_id \in conclusion_ids}
        conc_decided == {i \in all_verdicts : conclusion_verdicts[i].verdict \notin _UNDECIDED}
        pred_decided == {i \in conc_decided :
                            conclusion_verdicts[i].conclusion_id \in predictive_ids}
        assessed_logics == {l \in inference_logics : logics[l].logic_completeness # NULL}
        solution_ids == {x \in DOMAIN solutions : solutions[x].author_id = a}
        sol_decided == {i \in DOMAIN solution_assessments :
                            /\ solution_assessments[i].solution_id \in solution_ids
                            /\ solution_assessments[i].verdict \notin _UNDECIDED}
        quality_assessments == {i \in DOMAIN post_quality : post_quality[i].author_id = a}
        Count(S) == Rat(Cardinality(S), 1)
        fact_accuracy ==
            Metric(Count({i \in fact_decided : fact_evaluations[i].result = "true"}),
                   Cardinality(fact_decided))
        conclusion_accuracy ==
            Metric(Count({i \in conc_decided : conclusion_verdicts[i].verdict = "confirmed"}),
                   Cardinality(conc_decided))
        prediction_accuracy ==
            Metric(Count({i \in pred_decided : conclusion_verdicts[i].verdict = "confirmed"}),
                   Cardinality(pred_decided))
        logic_rigor ==
            Metric(RSum([l \in DOMAIN logics |->
                           IF l \in assessed_logics
                           THEN _RIGOR_SCORES(logics[l].logic_completeness) ELSE Rat(0, 1)]),
                   Cardinality(assessed_logics))
        recommendation_reliability ==
            Metric(Count({i \in sol_decided : solution_assessments[i].verdict = "confirmed"}),
                   Cardinality(sol_decided))
        content_uniqueness ==
            Metric(RSum([i \in DOMAIN post_quality |->
                           IF i \in quality_assessments
                           THEN post_quality[i].uniqueness_score ELSE Rat(0, 1)]),
                   Cardinality(quality_assessments))
        content_effectiveness ==
            Metric(RSum([i \in DOMAIN post_quality |->
                           IF i \in quality_assessments
                           THEN post_quality[i].effectiveness_score ELSE Rat(0, 1)]),
                   Cardinality(quality_assessments))
        metrics == <<fact_accuracy, conclusion_accuracy, prediction_accuracy, logic_rigor,
                     recommendation_reliability, content_uniqueness, content_effectiveness>>
    IN  [author_id |-> a,
         values |-> [k \in DOMAIN metrics |-> metrics[k].value],
         samples |-> [k \in DOMAIN metrics |-> metrics[k].sample],
         overall_credibility_score |-> overall([k \in DOMAIN metrics |-> metrics[k].value]),
         total_posts_analyzed |-> Cardinality(quality_assessments),
         last_updated |-> now]

\* a plausible slip: the look-up of the author's row left out
update_no_lookup(a) ==
    author_stats' = Append(author_stats, Stats(a))

\* AuthorStatsUpdater.update: the columns recomputed, and the upsert of the author's one row
update(a) ==
    author_stats' =
        IF \E i \in DOMAIN author_stats : author_stats[i].author_id = a
        THEN [i \in DOMAIN author_stats |->
                IF i = First({j \in DOMAIN author_stats : author_stats[j].author_id = a})
                THEN Stats(a) ELSE author_stats[i]]
        ELSE Append(author_stats, Stats(a))

\* Step 9: one author
Step9Update ==
    /\ pc = "step9" /\ todo # {}
    /\ \E a \in {First(todo)} :
          /\ update(a)
          /\ todo' = todo \ {a}
          /\ last' = [op |-> "update", id |-> a]
    /\ UNCHANGED <<call, now, raw_post, other_posts, authors, facts, conclusions, solutions, logics,
                   fact_evaluations, conclusion_verdicts, solution_assessments, post_quality,
                   pc, active_facts, committed, ext, passes>>

\* session.commit() at the end of the pass
PassCommit ==
    /\ pc = "step9" /\ todo = {}
    /\ committed' = Snapshot
    /\ pc' = "idle"
    /\ active_facts' = {}
    /\ passes' = [passes EXCEPT !.completed = @ + 1, !.ended_at = now, !.new_posts = FALSE]
    /\ last' = [op |-> "pass_commit"]
    /\ UNCHANGED <<call, now, tables, todo, ext>>

\* a plausible slip: the except branch commits what the pass wrote so far
PassAbort_commits ==
    /\ pc \in Steps
    /\ committed' = Snapshot
    /\ pc' = "idle"
    /\ todo' = {}
    /\ active_facts' = {}
    /\ passes' = [passes EXCEPT !.ended_at = now]
    /\ last' = [op |-> "pass_abort", dirty |-> Snapshot # committed]
    /\ UNCHANGED <<call, now, tables, ext>>

\* an exception escapes an operator: "except Exception" rolls the session back;
\* dirty records whether the session held uncommitted writes
PassAbort ==
    /\ pc \in Steps
    /\ Rollback
    /\ pc' = "idle"
    /\ todo' = {}
    /\ active_facts' = {}
    /\ passes' = [passes EXCEPT !.ended_at = now]
    /\ last' = [op |-> "pass_abort", dirty |-> Snapshot # committed]
    /\ UNCHANGED <<call, now, committed, ext>>

\* time passes; it shows where the clock is read next: when a pass starts (the
\* validity windows), in verify, in derive_conclusion and in derive_solution
Tick ==
    /\ now < MaxTime
    /\ pc \in {"idle", "step1", "step6c", "step6s"}
    /\ now' = now + 1
    /\ last' = [op |-> "tick"]
    /\ UNCHANGED <<call, tables, pc, todo, active_facts, committed, ext, passes>>

\* ------------------------------------------------------------------ inputs
\* schemas.ExtractedFact, the fields the pipeline reads
ExtractedFacts ==
    [canonical_claim : {"k"}, is_verifiable : BOOLEAN,
     validity_start_note : {None}, validity_end_note : {None}]

Inference(target, supporting, assumption) ==
    [logic_type |-> "inference", target_index |-> target,
     supporting_fact_indices |-> supporting, assumption_fact_indices |-> assumption,
     solution_index |-> None, source_conclusion_indices |-> <<>>]

Derivation(solution, sources) ==
    [logic_type |-> "derivation", target_index |-> None,
     supporting_fact_indices |-> <<>>, assumption_fact_indices |-> <<>>,
     solution_index |-> solution, source_conclusion_indices |-> sources]

\* the LLM outputs the pipeline is run on: two facts, one conclusion reasoned from
\* them, one solution derived from it or from nothing
PipelineOutputs ==
    {[facts |-> fs,
      conclusions |-> <<[conclusion_type |-> ct, canonical_claim |-> NULL]>>,
      solutions |-> <<[action_type |-> "buy"]>>,
      logics |-> <<inf, Derivation(0, src)>>] :
        fs \in {f \in [1..2 -> ExtractedFacts] : f[1].is_verifiable},
        ct \in {"retrospective", "predictive"},
        inf \in {Inference(0, <<0, 1>>, <<>>), Inference(0, <<0>>, <<1>>)},
        src \in {<<>>, <<0>>}}

\* the rest of the state before anything has run
InitRest ==
    /\ now = 0
    /\ other_posts = <<>>
    /\ facts = <<>>
    /\ conclusions = <<>>
    /\ solutions = <<>>
    /\ logics = <<>>
    /\ fact_evaluations = <<>>
    /\ conclusion_verdicts = <<>>
    /\ solution_assessments = <<>>
    /\ post_quality = <<>>
    /\ author_stats = <<>>
    /\ pc = "idle"
    /\ todo = {}
    /\ active_facts = {}
    /\ ext = NoExt
    /\ last = [op |-> "none"]
    /\ passes = [completed |-> 0, ended_at |-> -1, new_posts |-> FALSE,
                 repeat |-> FALSE, start |-> PassStartRecord]
    /\ committed = Snapshot

\* a collected post by a named author, not yet processed; no Author row yet
InitDb ==
    /\ raw_post = [is_processed |-> FALSE, author_platform_id |-> "u1", posted_at |-> 0]
    /\ authors = <<>>
    /\ InitRest

Init == call = NoCall /\ InitDb

Pass ==
    \/ PassStart
    \/ Step1Verify
    \/ Step1Done
    \/ Step4aSetup
    \/ Step4aDone
    \/ Step4bSimulate
    \/ Step4bDone
    \/ Step6Conclusion
    \/ Step6ConclusionsDone
    \/ Step6Solution
    \/ Step6SolutionsDone
    \/ Step8Assess(NoEffectiveness)
    \/ Step8Done
    \/ Step9Update
    \/ PassCommit
    \/ PassAbort

Next ==
    \/ ExtractIrrelevant
    \/ ExtractBegin(PipelineOutputs)
    \/ ExtractFact
    \/ ExtractConclusion
    \/ ExtractSolution
    \/ ExtractLogic
    \/ ExtractMark
    \/ Pass
    \/ Tick

Spec == Init /\ [][Next]_vars

\* ------------------------------------------------------------------ SpecProfile
\* what AuthorProfiler.profile gets back: no LLM response, a response that does
\* not parse, or a parsed dict whose credibility_tier is missing, in or out of range
ProfilerAnswers ==
    {[kind |-> "llm_none"], [kind |-> "parse_none"]}
    \cup [kind : {"parsed"}, credibility_tier : {None, 0, 1, 5, 6}]

\* a plausible slip: only profile_fetched_at is stamped, the flag is left as it was
_mark_fetched_stamp_only(rows, a) == rows

_mark_fetched(rows, a) == [rows EXCEPT ![a].profile_fetched = TRUE]

\* AuthorProfiler.profile: the authors table after it
profile(a, answer) ==
    IF authors[a].profile_fetched
    THEN authors
    ELSE IF answer.kind \in {"llm_none", "parse_none"}
         THEN _mark_fetched(authors, a)
         ELSE _mark_fetched(
                 [authors EXCEPT ![a].credibility_tier =
                     IF answer.credibility_tier \in 1..5 THEN answer.credibility_tier ELSE 5],
                 a)

\* Step 0's selection
UnprofiledAuthors == {a \in DOMAIN authors : ~authors[a].profile_fetched}

\* the interval trigger fires: open the session, select Step 0's authors
PassStartStep0 ==
    /\ pc = "idle"
    /\ now > passes.ended_at
    /\ pc' = "step0"
    /\ todo' = UnprofiledAuthors
    /\ passes' = [passes EXCEPT !.start = PassStartRecord,
                                !.repeat = passes.completed >= 1 /\ ~passes.new_posts]
    /\ last' = [op |-> "pass_start"]
    /\ UNCHANGED <<call, now, tables, active_facts, committed, ext>>

\* Step 0: profile one selected author
Step0Profile ==
    /\ pc = "step0" /\ todo # {}
    /\ \E a \in {First(todo)} : \E answer \in ProfilerAnswers :
          /\ authors' = profile(a, answer)
          /\ todo' = todo \ {a}
          /\ last' = [op |-> "profile", id |-> a, ok |-> answer.kind = "parsed"]
    /\ UNCHANGED <<call, now, raw_post, other_posts, facts, conclusions, solutions, logics,
                   fact_evaluations, conclusion_verdicts, solution_assessments, post_quality,
                   author_stats, pc, active_facts, committed, ext, passes>>

\* Step 0 is through; Step 1 selects
Step0Done ==
    /\ pc = "step0" /\ todo = {}
    /\ pc' = "step1"
    /\ todo' = ActiveFacts
    /\ active_facts' = ActiveFacts
    /\ last' = [op |-> "select"]
    /\ UNCHANGED <<call, now, tables, committed, ext, passes>>

\* between two passes the extractor processes a post of another author, relevant
\* and with empty result lists: _get_or_create_author adds the row, extract commits
MaxAuthors == 2
ExtractOtherAuthor ==
    /\ pc = "idle"
    /\ Len(authors) < MaxAuthors
    /\ authors' = Append(authors, NewAuthor("u2"))
    /\ committed' = [committed EXCEPT !.authors = authors']
    /\ passes' = [passes EXCEPT !.new_posts = TRUE]
    /\ last' = [op |-> "extract", out |-> "committed"]
    /\ UNCHANGED <<call, now, raw_post, other_posts, facts, conclusions, solutions, logics,
                   fact_evaluations, conclusion_verdicts, solution_assessments, post_quality,
                   author_stats, pc, todo, active_facts, ext>>

\* a database that holds Author rows and nothing to track: the posts had relevant
\* content and the extraction found no fact, conclusion or solution in them
InitProfile ==
    /\ call = NoCall
    /\ raw_post = [is_processed |-> TRUE, author_platform_id |-> "u1", posted_at |-> 0]
    /\ authors \in {<<NewAuthor("u1")>>, <<NewAuthor("u1"), NewAuthor("u2")>>}
    /\ InitRest

\* the pass on that database: Steps 1 to 6 select nothing
NextProfile ==
    \/ ExtractOtherAuthor
    \/ PassStartStep0
    \/ Step0Profile
    \/ Step0Done
    \/ Step1Done
    \/ Step4aDone
    \/ Step4bDone
    \/ Step6ConclusionsDone
    \/ Step6SolutionsDone
    \/ Step8Assess(NoEffectiveness)
    \/ Step8Done
    \/ Step9Update
    \/ PassCommit
    \/ PassAbort
    \/ Tick

SpecProfile == InitProfile /\ [][NextProfile]_vars

\* ------------------------------------------------------------------ SpecQuality
\* the facts the extractor finds in the posts of this run: not verifiable, with a
\* canonical claim that two posts may share
MaxOtherPosts == 1
QualityFacts ==
    [canonical_claim : {"k", "m"}, is_verifiable : {FALSE},
     validity_start_note : {None}, validity_end_note : {None}]

\* the conclusions the extractor may find next to the fact: none, or a
\* retrospective one with a canonical claim
QualityConclusions ==
    SeqsUpTo([conclusion_type : {"retrospective"}, canonical_claim : {"k"}], 1)

\* between two passes the extractor processes a later post of another author and
\* finds one fact in it, with or without a conclusion; extract commits
ExtractOtherPost ==
    /\ pc = "idle"
    /\ Len(other_posts) < MaxOtherPosts
    /\ \E ef \in QualityFacts : \E ecs \in QualityConclusions :
          LET post == [is_processed |-> TRUE, author_platform_id |-> "u2",
                       posted_at |-> raw_post.posted_at + 1]
          IN  /\ other_posts' = Append(other_posts, post)
              /\ authors' = _get_or_create_author(post)
              /\ facts' = Append(facts, _save_fact(ef, Len(RawPosts) + 1))
              /\ conclusions' =
                    conclusions \o [k \in DOMAIN ecs |->
                                      NewConclusion(ecs[k], _author_id(post),
                                                    Len(RawPosts) + 1, post.posted_at)]
    /\ committed' = [committed EXCEPT !.other_posts = other_posts', !.authors = authors',
                                      !.facts = facts', !.conclusions = conclusions']
    /\ passes' = [passes EXCEPT !.new_posts = TRUE]
    /\ last' = [op |-> "extract", out |-> "committed"]
    /\ UNCHANGED <<call, now, raw_post, solutions, logics,
                   fact_evaluations, conclusion_verdicts, solution_assessments, post_quality,
                   author_stats, pc, todo, active_facts, ext>>

\* a database after the extraction of one post: its Author and one Fact with the
\* canonical claim "k", nothing to verify
InitQuality ==
    /\ call = NoCall
    /\ raw_post = [is_processed |-> TRUE, author_platform_id |-> "u1", posted_at |-> 0]
    /\ authors = <<NewAuthor("u1")>>
    /\ facts = <<_save_fact([canonical_claim |-> "k", is_verifiable |-> FALSE,
                             validity_start_note |-> None, validity_end_note |-> None], 1)>>
    /\ now = 0
    /\ other_posts = <<>>
    /\ conclusions = <<>>
    /\ solutions = <<>>
    /\ logics = <<>>
    /\ fact_evaluations = <<>>
    /\ conclusion_verdicts = <<>>
    /\ solution_assessments = <<>>
    /\ post_quality = <<>>
    /\ author_stats = <<>>
    /\ pc = "idle"
    /\ todo = {}
    /\ active_facts = {}
    /\ ext = NoExt
    /\ last = [op |-> "none"]
    /\ passes = [completed |-> 0, ended_at |-> -1, new_posts |-> TRUE,
                 repeat |-> FALSE, start |-> PassStartRecord]
    /\ committed = Snapshot

\* the passes on that database: Steps 1 to 6 select nothing
NextQuality ==
    \/ ExtractOtherPost
    \/ PassStartStep0
    \/ Step0Profile
    \/ Step0Done
    \/ Step1Done
    \/ Step4aDone
    \/ Step4bDone
    \/ Step6ConclusionsDone
    \/ Step6SolutionsDone
    \/ Step8Assess(NoEffectiveness)
    \/ Step8Done
    \/ Step9Update
    \/ PassCommit
    \/ PassAbort
    \/ Tick

SpecQuality == InitQuality /\ [][NextQuality]_vars

\* ------------------------------------------------------------------ logic_evaluator.py
LogicCompleteness == {"complete", "partial", "weak", "invalid"}

\* the evaluator's answer: none (the call or the parse failed), or a dict whose
\* logic_completeness is missing, a member of the enum, or another word
EvaluatorAnswers ==
    {[ok |-> FALSE]}
    \cup [ok : {TRUE}, logic_completeness : {NULL, "complete", "solid"},
          one_sentence_summary : {"summary"}]

\* LogicEvaluator.evaluate on logic l: the logics table after it
evaluate(l, answer) ==
    IF ~answer.ok
    THEN logics
    ELSE [logics EXCEPT
            ![l].logic_completeness =
                IF answer.logic_completeness \in LogicCompleteness
                THEN answer.logic_completeness ELSE @,
            ![l].one_sentence_summary = answer.one_sentence_summary]

\* ------------------------------------------------------------------ role_evaluator.py
RoleFits == {"appropriate", "questionable", "mismatched"}

\* the role LLM's answer: none, or a dict whose role_fit is one of the three
\* words or another one
RoleAnswers == {[ok |-> FALSE]} \cup [ok : {TRUE}, role_fit : {"appropriate", "expert"}]

\* RoleEvaluator._evaluate: the role_fit it returns
_evaluate(answer) ==
    IF ~answer.ok THEN "questionable"
    ELSE IF answer.role_fit \in RoleFits THEN answer.role_fit ELSE "questionable"

\* evaluate_conclusion_verdict on verdict row v: the table after it
evaluate_conclusion_verdict(v, answer) ==
    IF conclusion_verdicts[v].role_fit # NULL
    THEN conclusion_verdicts
    ELSE [conclusion_verdicts EXCEPT ![v].role_fit = _evaluate(answer)]

\* evaluate_solution_assessment on assessment row i: the table after it
evaluate_solution_assessment(i, answer) ==
    IF solution_assessments[i].role_fit # NULL
    THEN solution_assessments
    ELSE [solution_assessments EXCEPT ![i].role_fit = _evaluate(answer)]

\* Step 7's two selections
UnevaluatedVerdicts ==
    {v \in DOMAIN conclusion_verdicts : conclusion_verdicts[v].role_fit = NULL}
UnevaluatedAssessments ==
    {i \in DOMAIN solution_assessments : solution_assessments[i].role_fit = NULL}

\* ------------------------------------------------------------------ SpecPass
\* the whole of _run_layer3_pipeline, Steps 0 to 9 (Step 5 is a comment there)
\* Step 1 is through; Step 2+3 selects every Logic
Step1DoneSelectLogics ==
    /\ pc = "step1" /\ todo = {}
    /\ pc' = "step23"
    /\ todo' = DOMAIN logics
    /\ last' = [op |-> "select"]
    /\ UNCHANGED <<call, now, tables, active_facts, committed, ext, passes>>

\* Step 2+3: evaluate one logic
Step23Evaluate ==
    /\ pc = "step23" /\ todo # {}
    /\ \E l \in {First(todo)} : \E answer \in EvaluatorAnswers :
          /\ logics' = evaluate(l, answer)
          /\ todo' = todo \ {l}
          /\ last' = [op |-> "evaluate", id |-> l, ok |-> answer.ok]
    /\ UNCHANGED <<call, now, raw_post, other_posts, authors, facts, conclusions, solutions,
                   fact_evaluations, conclusion_verdicts, solution_assessments, post_quality,
                   author_stats, pc, active_facts, committed, ext, passes>>

\* Step 2+3 is through; Step 4a selects
Step23Done ==
    /\ pc = "step23" /\ todo = {}
    /\ pc' = "step4a"
    /\ todo' = UnconfiguredConclusions
    /\ last' = [op |-> "select"]
    /\ UNCHANGED <<call, now, tables, active_facts, committed, ext, passes>>

\* Step 6 is through; Step 7 selects the verdict rows without a role_fit
Step6SolutionsDoneSelectVerdicts ==
    /\ pc = "step6s" /\ todo = {}
    /\ pc' = "step7c"
    /\ todo' = UnevaluatedVerdicts
    /\ last' = [op |-> "select"]
    /\ UNCHANGED <<call, now, tables, active_facts, committed, ext, passes>>

\* Step 7: one ConclusionVerdict
Step7Verdict ==
    /\ pc = "step7c" /\ todo # {}
    /\ \E v \in {First(todo)} : \E answer \in RoleAnswers :
          /\ conclusion_verdicts' = evaluate_conclusion_verdict(v, answer)
          /\ todo' = todo \ {v}
          /\ last' = [op |-> "evaluate_conclusion_verdict", id |-> v, ok |-> answer.ok]
    /\ UNCHANGED <<call, now, raw_post, other_posts, authors, facts, conclusions, solutions, logics,
                   fact_evaluations, solution_assessments, post_quality,
                   author_stats, pc, active_facts, committed, ext, passes>>

\* Step 7: the assessment rows without a role_fit are selected next
Step7VerdictsDone ==
    /\ pc = "step7c" /\ todo = {}
    /\ pc' = "step7s"
    /\ todo' = UnevaluatedAssessments
    /\ last' = [op |-> "select"]
    /\ UNCHANGED <<call, now, tables, active_facts, committed, ext, passes>>

\* Step 7: one SolutionAssessment
Step7Assessment ==
    /\ pc = "step7s" /\ todo # {}
    /\ \E i \in {First(todo)} : \E answer \in RoleAnswers :
          /\ solution_assessments' = evaluate_solution_assessment(i, answer)
          /\ todo' = todo \ {i}
          /\ last' = [op |-> "evaluate_solution_assessment", id |-> i, ok |-> answer.ok]
    /\ UNCHANGED <<call, now, raw_post, other_posts, authors, facts, conclusions, solutions, logics,
                   fact_evaluations, conclusion_verdicts, post_quality,
                   author_stats, pc, active_facts, committed, ext, passes>>

Step7AssessmentsDone ==
    /\ pc = "step7s" /\ todo = {}
    /\ pc' = "step8"
    /\ todo' = ProcessedPosts
    /\ last' = [op |-> "select"]
    /\ UNCHANGED <<call, now, tables, active_facts, committed, ext, passes>>

\* the LLM output the whole pass is run on: one verifiable fact, one predictive
\* conclusion reasoned from it, one solution derived from the conclusion
PassOutputs ==
    {[facts |-> <<[canonical_claim |-> "k", is_verifiable |-> TRUE,
                   validity_start_note |-> None,
                   validity_end_note |-> None]>>,
      conclusions |-> <<[conclusion_type |-> "predictive", canonical_claim |-> NULL]>>,
      solutions |-> <<[action_type |-> "buy"]>>,
      logics |-> <<Inference(0, <<0>>, <<>>), Derivation(0, <<0>>)>>]}

FullPass ==
    \/ PassStartStep0
    \/ Step0Profile
    \/ Step0Done
    \/ Step1Verify
    \/ Step1DoneSelectLogics
    \/ Step23Evaluate
    \/ Step23Done
    \/ Step4aSetup
    \/ Step4aDone
    \/ Step4bSimulate
    \/ Step4bDone
    \/ Step6Conclusion
    \/ Step6ConclusionsDone
    \/ Step6Solution
    \/ Step6SolutionsDoneSelectVerdicts
    \/ Step7Verdict
    \/ Step7VerdictsDone
    \/ Step7Assessment
    \/ Step7AssessmentsDone
    \/ Step8Assess(EffectivenessAnswers)
    \/ Step8Done
    \/ Step9Update
    \/ PassCommit
    \/ PassAbort

NextPass ==
    \/ ExtractBegin(PassOutputs)
    \/ ExtractFact
    \/ ExtractConclusion
    \/ ExtractSolution
    \/ ExtractLogic
    \/ ExtractMark
    \/ FullPass

SpecPass == Init /\ [][NextPass]_vars

\* ------------------------------------------------------------------ SpecPure
\* the calls of _derive: a Logic's two id lists and a dict of latest results
DeriveCalls ==
    [op : {"_derive"},
     supporting_ids : SeqsUpTo(1..PureFacts, PureLen),
     assumption_ids : SeqsUpTo(1..PureFacts, PureLen),
     evaluations : Dicts(1..PureFacts, EvaluationResult),
     result : {NULL}]

\* the calls of _aggregate_solution_verdict: derive_solution passes a non-empty list
AggregateCalls ==
    [op : {"_aggregate_solution_verdict"},
     verdicts : SeqsUpTo(VerdictResult, MaxVerdicts) \ {<<>>},
     result : {NULL}]

\* ------------------------------------------------------------------ logic_relation_mapper.py
\* the Logic ids of a call of map, and the ids the LLM may name
MaxLogicId == 3
MaxRelations == 2

\* one entry of the LLM's "relations": ids that may be missing or unknown, and a
\* relation_type that may be none of the three
RawRelations ==
    [from_logic_id : {None} \cup 1..MaxLogicId + 1,
     to_logic_id : 1..MaxLogicId + 1,
     relation_type : {"supports", "contradicts", "other"}]

\* the mapper's answer: none (the call or the parse failed) or a dict with relations
MapperAnswers ==
    {[kind |-> "llm_none"], [kind |-> "parse_none"]}
    \cup [kind : {"parsed"}, relations : SeqsUpTo(RawRelations, MaxRelations)]

LogicRelation(r) ==
    [from_logic_id |-> r.from_logic_id, to_logic_id |-> r.to_logic_id,
     relation_type |-> IF r.relation_type \in {"supports", "contextualizes", "contradicts"}
                       THEN r.relation_type ELSE "supports"]

\* a plausible slip: the self-edge test left out
map_self_edges(logic_ids, answer) ==
    IF Cardinality(logic_ids) < 2 \/ answer.kind # "parsed" THEN <<>>
    ELSE LET valid_ids == logic_ids
             kept == SelectSeq(answer.relations,
                               LAMBDA r : /\ r.from_logic_id \in valid_ids
                                          /\ r.to_logic_id \in valid_ids)
         IN  [k \in DOMAIN kept |-> LogicRelation(kept[k])]

\* LogicRelationMapper.map: the LogicRelation rows it adds, given the ids of its logics
map(logic_ids, answer) ==
    IF Cardinality(logic_ids) < 2 \/ answer.kind # "parsed" THEN <<>>
    ELSE LET valid_ids == logic_ids
             kept == SelectSeq(answer.relations,
                               LAMBDA r : /\ r.from_logic_id \in valid_ids
                                          /\ r.to_logic_id \in valid_ids
                                          /\ r.from_logic_id # r.to_logic_id)
         IN  [k \in DOMAIN kept |-> LogicRelation(kept[k])]

\* the calls of map: the Logic rows of a fresh database with one post
MapCalls ==
    [op : {"map"},
     logic_ids : SUBSET (1..MaxLogicId),
     answer : MapperAnswers,
     returned : {FALSE},
     relations : {<<>>}]

\* the metric values update can hand to its overall score: None, or a rate
MetricValues == {NoScore, Rat(0, 1), Rat(1, 3), Rat(4, 5), Rat(1, 1)}

\* the calls of the overall score: one value or None per dimension
OverallCalls ==
    [op : {"overall"},
     metric_values : [DOMAIN _WEIGHTS -> MetricValues],
     returned : {FALSE},
     result : {NoScore}]

InitPure ==
    /\ call \in DeriveCalls \cup AggregateCalls \cup OverallCalls \cup MapCalls
    /\ InitDb

CallDerive ==
    /\ call.op = "_derive" /\ call.result = NULL
    /\ call' = [call EXCEPT !.result =
                   _derive(call.supporting_ids, call.assumption_ids, call.evaluations)]
    /\ UNCHANGED <<now, tables, pc, todo, active_facts, committed, ext, last, passes>>

CallAggregate ==
    /\ call.op = "_aggregate_solution_verdict" /\ call.result = NULL
    /\ call' = [call EXCEPT !.result = _aggregate_solution_verdict(call.verdicts)]
    /\ UNCHANGED <<now, tables, pc, todo, active_facts, committed, ext, last, passes>>

CallOverall ==
    /\ call.op = "overall" /\ ~call.returned
    /\ call' = [call EXCEPT !.returned = TRUE, !.result = overall(call.metric_values)]
    /\ UNCHANGED <<now, tables, pc, todo, active_facts, committed, ext, last, passes>>

CallMap ==
    /\ call.op = "map" /\ ~call.returned
    /\ call' = [call EXCEPT !.returned = TRUE, !.relations = map(call.logic_ids, call.answer)]
    /\ UNCHANGED <<now, tables, pc, todo, active_facts, committed, ext, last, passes>>

NextPure == CallDerive \/ CallAggregate \/ CallOverall \/ CallMap

SpecPure == InitPure /\ [][NextPure]_vars

\* ------------------------------------------------------------------ SpecExtract
\* LLM outputs of any shape: up to two facts with or without a readable validity
\* note, at most one conclusion and one solution, and logics whose indices may
\* name items the output does not hold
ExtractedFactsAny ==
    [canonical_claim : {"k"}, is_verifiable : BOOLEAN, validity_start_note : {None},
     validity_end_note : {None, Unreadable, 0}]

ExtractOutputs ==
    {[facts |-> fs, conclusions |-> cs, solutions |-> ss,
      logics |-> <<Inference(t, sup, ass), Derivation(si, <<0, 1>>)>>] :
        fs \in SeqsUpTo(ExtractedFactsAny, 2) \ {<<>>},
        cs \in SeqsUpTo([conclusion_type : {"retrospective", "predictive"},
                         canonical_claim : {NULL}], 1),
        ss \in SeqsUpTo([action_type : {"buy"}], 1),
        t \in {0, 1}, sup \in {<<0>>, <<0, 2>>}, ass \in {<<>>, <<1>>}, si \in {0, 1}}

\* a collected post, with or without an author id, whose Author row may exist
InitExtract ==
    /\ call = NoCall
    /\ raw_post \in [is_processed : {FALSE}, author_platform_id : {NULL, "u1"}, posted_at : {0}]
    /\ authors \in {<<>>, <<NewAuthor("u1")>>}
    /\ InitRest

NextExtract ==
    \/ ExtractSkip
    \/ ExtractNoResult
    \/ ExtractIrrelevant
    \/ ExtractBegin(ExtractOutputs)
    \/ ExtractFact
    \/ ExtractConclusion
    \/ ExtractSolution
    \/ ExtractLogic
    \/ ExtractMark
    \/ ExtractFail

SpecExtract == InitExtract /\ [][NextExtract]_vars

\* ------------------------------------------------------------------ properties
\* the facts a call of _derive references, and the result each has
Referenced == Range(call.supporting_ids) \cup Range(call.assumption_ids)
ResultOf(f) == get_result(call.evaluations, f)

\* rows 2..6 of the rule table, each with the rows above it excluded
RuleTableBelowFirst ==
    LET anyAssFalse == \E f \in Range(call.assumption_ids) : ResultOf(f) = "false"
        anySupFalse == \E f \in Range(call.supporting_ids) : ResultOf(f) = "false"
        anyTrue == \E f \in Referenced : ResultOf(f) = "true"
        onlyTrueOrUnavailable == \A f \in Referenced : ResultOf(f) \in {"true", "unavailable"}
    IN  /\ anyAssFalse => call.result = "refuted"
        /\ ~anyAssFalse /\ anySupFalse => call.result = "refuted"
        /\ ~anyAssFalse /\ ~anySupFalse /\ onlyTrueOrUnavailable /\ anyTrue
              => call.result = "confirmed"
        /\ ~anyAssFalse /\ ~anySupFalse /\ ~onlyTrueOrUnavailable /\ anyTrue
              => call.result = "partial"
        /\ ~anyAssFalse /\ ~anySupFalse /\ ~anyTrue => call.result = "pending"

C2_Aggregate ==
    (call.op = "_aggregate_solution_verdict" /\ call.result # NULL) =>
        LET vs == Range(call.verdicts)
        IN  /\ vs = {"confirmed"} => call.result = "confirmed"
            /\ vs # {"confirmed"} /\ "refuted" \in vs => call.result = "refuted"
            /\ vs # {"confirmed"} /\ "refuted" \notin vs /\ "confirmed" \in vs
                  => call.result = "partial"
            /\ "refuted" \notin vs /\ "confirmed" \notin vs /\ vs = {"unverifiable"}
                  => call.result = "unverifiable"
            /\ "refuted" \notin vs /\ "confirmed" \notin vs /\ vs # {"unverifiable"}
                  => call.result = "pending"

\* a list with a CONFIRMED and a REFUTED verdict, answered REFUTED
C2_Witness ==
    /\ call.op = "_aggregate_solution_verdict" /\ call.result = "refuted"
    /\ "confirmed" \in Range(call.verdicts)

\* C3: a successful verification (the LLM answered) appends exactly one
\* FactEvaluation, of the fact verified, and sets that fact's status from the
\* row's result: true VERIFIED_TRUE, false VERIFIED_FALSE, unavailable
\* UNVERIFIABLE; uncertain leaves it PENDING. No other fact changes.
C3_VerifyAppendsOne ==
    [][(last'.op = "verify" /\ last'.answer # LlmNone) =>
          LET f == last'.id
              row == fact_evaluations'[Len(fact_evaluations')]
          IN  /\ Len(fact_evaluations') = Len(fact_evaluations) + 1
              /\ SubSeq(fact_evaluations', 1, Len(fact_evaluations)) = fact_evaluations
              /\ row.fact_id = f
              /\ row.result = "true" => facts'[f].status = "verified_true"
              /\ row.result = "false" => facts'[f].status = "verified_false"
              /\ row.result = "unavailable" => facts'[f].status = "unverifiable"
              /\ row.result = "uncertain" => facts'[f].status = "pending"
              /\ \A g \in DOMAIN facts \ {f} : facts'[g] = facts[g]]_vars

\* an uncertain answer was just recorded and the fact is still PENDING
C3_Witness ==
    /\ last.op = "verify" /\ last.answer = "uncertain"
    /\ facts[last.id].status = "pending"
    /\ fact_evaluations # <<>>
    /\ fact_evaluations[Len(fact_evaluations)] =
          [fact_id |-> last.id, result |-> "uncertain", evaluated_at |-> now]

\* the newest FactEvaluation rows of fact f, and the status a result maps to
LatestEvaluations(f) ==
    LET rows == {i \in DOMAIN fact_evaluations : fact_evaluations[i].fact_id = f}
    IN  {i \in rows : \A k \in rows :
            fact_evaluations[k].evaluated_at <= fact_evaluations[i].evaluated_at}

StatusOfResult(result) ==
    CASE result = "true" -> "verified_true"
      [] result = "false" -> "verified_false"
      [] result = "unavailable" -> "unverifiable"
      [] OTHER -> "none"

AgreesWithLatest(f) ==
    /\ LatestEvaluations(f) # {}
    /\ \A i \in LatestEvaluations(f) :
          facts[f].status = StatusOfResult(fact_evaluations[i].result)

\* C4 as stated: every Fact whose status is VERIFIED_TRUE, VERIFIED_FALSE or
\* UNVERIFIABLE has a FactEvaluation, and its status is the mapping of its latest
\* evaluation's result; Facts as first written by the extractor included.
C4_StatusFromLatestAsStated ==
    \A f \in DOMAIN facts :
        facts[f].status \in {"verified_true", "verified_false", "unverifiable"}
            => AgreesWithLatest(f)

\* C4, amended: the same for every Fact whose status is VERIFIED_TRUE or
\* VERIFIED_FALSE, and for every verifiable Fact whose status is UNVERIFIABLE; a
\* Fact extracted as not verifiable is UNVERIFIABLE from the start, with no evaluation.
C4_StatusFromLatest ==
    \A f \in DOMAIN facts :
        \/ facts[f].status \in {"verified_true", "verified_false"}
        \/ facts[f].status = "unverifiable" /\ facts[f].is_verifiable
        => AgreesWithLatest(f)

\* a fact verified TRUE by its second evaluation, next to a Fact that was
\* extracted as not verifiable
C4_Witness ==
    /\ \E f \in DOMAIN facts :
          /\ facts[f].status = "verified_true"
          /\ Cardinality({i \in DOMAIN fact_evaluations :
                             fact_evaluations[i].fact_id = f}) = 2
    /\ \E g \in DOMAIN facts : ~facts[g].is_verifiable /\ facts[g].status = "unverifiable"


\* the ConclusionVerdict rows of conclusion c; the clock never runs backwards, so
\* the row inserted last is the latest
VerdictRows(c) == {i \in DOMAIN conclusion_verdicts : conclusion_verdicts[i].conclusion_id = c}
LatestVerdict(c) ==
    conclusion_verdicts[CHOOSE i \in VerdictRows(c) : \A k \in VerdictRows(c) : k <= i].verdict

\* C5: every Conclusion that has a ConclusionVerdict has the status its latest
\* verdict gives: CONFIRMED, REFUTED, UNVERIFIABLE the status of the same name,
\* and PARTIAL, PENDING, EXPIRED the status PENDING.
C5_StatusFromLatestVerdict ==
    \A c \in DOMAIN conclusions :
        VerdictRows(c) # {} =>
            /\ LatestVerdict(c) \in {"confirmed", "refuted", "unverifiable"}
                  => conclusions[c].status = LatestVerdict(c)
            /\ LatestVerdict(c) \in {"partial", "pending", "expired"}
                  => conclusions[c].status = "pending"

\* a conclusion whose latest verdict is PARTIAL
C5_Witness ==
    \E c \in DOMAIN conclusions :
        /\ VerdictRows(c) # {}
        /\ LatestVerdict(c) = "partial"
        /\ conclusions[c].status = "pending"

\* Op 6 has just run on conclusion c
DerivedJust(c) == last'.op = "derive_conclusion" /\ last'.id = c

\* C6: Op 6 on a predictive Conclusion while now < monitoring_end writes no
\* ConclusionVerdict and leaves the Conclusion as it is, whatever its facts'
\* evaluations are.
C6_NotYetMonitorable ==
    [][\A c \in DOMAIN conclusions :
          (/\ DerivedJust(c)
           /\ conclusions[c].conclusion_type = "predictive"
           /\ conclusions[c].monitoring_end # None
           /\ now < conclusions[c].monitoring_end)
          => /\ conclusion_verdicts' = conclusion_verdicts
             /\ conclusions' = conclusions]_vars

\* Op 6 has run on a predictive conclusion before its monitoring_end, a
\* supporting fact of which is verified TRUE
C6_Witness ==
    /\ last.op = "derive_conclusion"
    /\ conclusions[last.id].conclusion_type = "predictive"
    /\ conclusions[last.id].monitoring_end # None
    /\ now < conclusions[last.id].monitoring_end
    /\ \E i \in DOMAIN fact_evaluations : fact_evaluations[i].result = "true"

\* C7: every predictive Conclusion whose status is CONFIRMED or REFUTED has a
\* ConclusionVerdict whose derived_at is at or after its monitoring_end (an unset
\* monitoring_end is a date no derived_at is at or after).
C7_VerdictAfterMonitoringEnd ==
    \A c \in DOMAIN conclusions :
        (/\ conclusions[c].conclusion_type = "predictive"
         /\ conclusions[c].status \in {"confirmed", "refuted"})
        => \E i \in VerdictRows(c) :
              /\ conclusions[c].monitoring_end # None
              /\ conclusion_verdicts[i].derived_at >= conclusions[c].monitoring_end

\* C8: a predictive Conclusion whose monitoring_end is unset is given no
\* ConclusionVerdict by Op 6 and keeps its status.
C8_UnsetMonitoringIneligible ==
    [][\A c \in DOMAIN conclusions :
          (/\ DerivedJust(c)
           /\ conclusions[c].conclusion_type = "predictive"
           /\ conclusions[c].monitoring_end = None)
          => /\ conclusion_verdicts' = conclusion_verdicts
             /\ conclusions'[c].status = conclusions[c].status]_vars

\* the rows added since the running (or last) pass started
NewRows(rows, before) == {i \in DOMAIN rows : i > before}

\* C9 as stated: a pass that follows a completed pass with no new post in
\* between adds no FactEvaluation, ConclusionVerdict, SolutionAssessment,
\* PostQualityAssessment or AuthorStats row.
C9_SecondPassAddsNothing ==
    passes.repeat =>
        /\ Len(fact_evaluations) = passes.start.fact_evaluations
        /\ Len(conclusion_verdicts) = passes.start.conclusion_verdicts
        /\ Len(solution_assessments) = passes.start.solution_assessments
        /\ Len(post_quality) = passes.start.post_quality
        /\ Len(author_stats) = passes.start.author_stats

\* C9, amended: such a pass adds no PostQualityAssessment and no AuthorStats
\* row; it adds a FactEvaluation only for a Fact that was still PENDING when it
\* started, a ConclusionVerdict only for a Conclusion an inference Logic of which
\* references such a Fact, and a SolutionAssessment only for a Solution that was
\* still PENDING when it started.
C9_SecondPassRetriesPending ==
    passes.repeat =>
        /\ Len(post_quality) = passes.start.post_quality
        /\ Len(author_stats) = passes.start.author_stats
        /\ \A i \in NewRows(fact_evaluations, passes.start.fact_evaluations) :
              fact_evaluations[i].fact_id \in passes.start.pending_facts
        /\ \A i \in NewRows(conclusion_verdicts, passes.start.conclusion_verdicts) :
              \E l \in DOMAIN logics :
                 /\ logics[l].logic_type = "inference"
                 /\ logics[l].conclusion_id = conclusion_verdicts[i].conclusion_id
                 /\ (Range(logics[l].supporting_fact_ids)
                       \cup Range(logics[l].assumption_fact_ids))
                       \cap passes.start.pending_facts # {}
        /\ \A i \in NewRows(solution_assessments, passes.start.solution_assessments) :
              solution_assessments[i].solution_id \in passes.start.pending_solutions

\* a second pass has committed: it re-verified a fact the first left PENDING and
\* found the post's assessment and the author's stats row in place
C9_Witness ==
    /\ passes.repeat /\ pc = "idle" /\ passes.completed = 2
    /\ NewRows(fact_evaluations, passes.start.fact_evaluations) # {}
    /\ Len(post_quality) = 1 /\ Len(author_stats) = 1

\* the claim graph of a database state, and the Logic rows an output leads to
NoGraph(db) ==
    db.facts = <<>> /\ db.conclusions = <<>> /\ db.solutions = <<>> /\ db.logics = <<>>

KnownTarget(el, result) ==
    IF el.logic_type = "inference"
    THEN el.target_index \in 0..(Len(result.conclusions) - 1)
    ELSE el.solution_index \in 0..(Len(result.solutions) - 1)

WholeGraph(db, result) ==
    /\ Len(db.facts) = Len(result.facts)
    /\ Len(db.conclusions) = Len(result.conclusions)
    /\ Len(db.solutions) = Len(result.solutions)
    /\ Len(db.logics) =
          Cardinality({i \in DOMAIN result.logics : KnownTarget(result.logics[i], result)})

\* C10: while the committed RawPost is unprocessed, no claim-graph row of it is
\* committed; what is committed changes only in a step that makes the committed
\* is_processed true, and that step commits either no graph row (an irrelevant
\* post) or every row of the extraction; a failure part-way commits nothing.
C10_AtomicExtraction ==
    /\ [](~committed.raw_post.is_processed => NoGraph(committed))
    /\ [][committed' # committed =>
             /\ ~committed.raw_post.is_processed
             /\ committed'.raw_post.is_processed
             /\ \/ pc = "idle" /\ NoGraph(committed')
                \/ pc = "ext_mark" /\ WholeGraph(committed', ext.result)]_vars

\* an extraction has committed its whole graph, a logic with an unknown target left out
C10_Witness ==
    /\ committed.raw_post.is_processed
    /\ Len(committed.facts) = 2
    /\ Len(committed.conclusions) = 1
    /\ Len(committed.logics) = 1


\* extract has just handled the next logic of the LLM output
LogicHandled == pc = "ext_logics" /\ pc' = "ext_logics" /\ ext'.done = ext.done + 1

\* C11: a Logic is inserted only after every Fact, Conclusion and Solution of the
\* extraction is, and every id it stores (conclusion_id, solution_id,
\* supporting_fact_ids, assumption_fact_ids, source_conclusion_ids) is the id of
\* a row that exists before the Logic is inserted.
C11_ReferencesExist ==
    [][Len(logics') > Len(logics) =>
          LET row == logics'[Len(logics')]
          IN  /\ pc = "ext_logics"
              /\ Len(facts) = Len(ext.result.facts)
              /\ Len(conclusions) = Len(ext.result.conclusions)
              /\ Len(solutions) = Len(ext.result.solutions)
              /\ row.conclusion_id # None => row.conclusion_id \in DOMAIN conclusions
              /\ row.solution_id # None => row.solution_id \in DOMAIN solutions
              /\ Range(row.supporting_fact_ids) \subseteq DOMAIN facts
              /\ Range(row.assumption_fact_ids) \subseteq DOMAIN facts
              /\ Range(row.source_conclusion_ids) \subseteq DOMAIN conclusions]_vars

\* an inference Logic over both facts and a derivation Logic from the conclusion are in
C11_Witness ==
    /\ pc = "ext_logics" /\ Len(logics) = 2
    /\ logics[1].conclusion_id = 1
    /\ Range(logics[1].supporting_fact_ids) \cup Range(logics[1].assumption_fact_ids) = {1, 2}
    /\ logics[2].solution_id = 1 /\ logics[2].source_conclusion_ids = <<1>>

\* C12: every inference Logic has a conclusion_id and no solution_id, and every
\* derivation Logic has a solution_id and no conclusion_id.
C12_LogicTyping ==
    \A l \in DOMAIN logics :
        /\ logics[l].logic_type \in {"inference", "derivation"}
        /\ logics[l].logic_type = "inference" =>
              logics[l].conclusion_id # None /\ logics[l].solution_id = None
        /\ logics[l].logic_type = "derivation" =>
              logics[l].solution_id # None /\ logics[l].conclusion_id = None

\* a committed graph with a Logic of each type
C12_Witness ==
    /\ committed.raw_post.is_processed
    /\ \E l \in DOMAIN committed.logics : committed.logics[l].logic_type = "inference"
    /\ \E l \in DOMAIN committed.logics : committed.logics[l].logic_type = "derivation"

\* the local indices of an extracted logic that its map does not hold
UnknownMembers(indices, m) == {k \in DOMAIN indices : indices[k] \notin DOMAIN m}
KnownIds(indices, m) == {m[i] : i \in Range(indices) \cap DOMAIN m}

AnyUnknownIndex(el) ==
    \/ ~KnownTarget(el, ext.result)
    \/ UnknownMembers(el.supporting_fact_indices, ext.fact_id_map) # {}
    \/ UnknownMembers(el.assumption_fact_indices, ext.fact_id_map) # {}
    \/ UnknownMembers(el.source_conclusion_indices, ext.conclusion_id_map) # {}

Returned(outs) == last'.op = "extract" /\ last'.out \in outs

\* C14: extracting a post the LLM declares irrelevant writes no Fact, Conclusion,
\* Solution or Logic row and sets is_processed = true on the RawPost, committed.
C14_IrrelevantPost ==
    [][Returned({"irrelevant"}) =>
          /\ UNCHANGED <<facts, conclusions, solutions, logics>>
          /\ raw_post'.is_processed
          /\ committed'.raw_post.is_processed
          /\ NoGraph(committed')]_vars

\* an irrelevant post, processed, with no graph
C14_Witness ==
    /\ last.op = "extract" /\ last.out = "irrelevant"
    /\ raw_post.is_processed /\ committed.raw_post.is_processed
    /\ NoGraph(Snapshot)

\* C15: when the LLM call returns null or its output does not parse, extract
\* writes no row and commits nothing, and the RawPost stays unprocessed with no
\* extraction under way, which is what a later extract call starts from.
C15_NoResultLeavesUnprocessed ==
    [][Returned({"llm_none", "parse_none"}) =>
          /\ UNCHANGED <<tables, committed>>
          /\ ~raw_post'.is_processed
          /\ pc' = "idle"]_vars

\* the LLM output did not parse: the post is unprocessed and nothing is written
C15_Witness ==
    /\ last.op = "extract" /\ last.out = "parse_none"
    /\ ~raw_post.is_processed /\ ~committed.raw_post.is_processed
    /\ NoGraph(Snapshot)

\* C16: extract on a RawPost that is already processed leaves every table and
\* what is committed unchanged and starts no extraction, so the graph of a post
\* is written at most once.
C16_ProcessedPostUntouched ==
    [][raw_post.is_processed =>
          /\ UNCHANGED <<tables, committed, pc, ext>>
          /\ last' # last => Returned({"already_processed"})]_vars

\* extract was called on a post whose whole graph is committed
C16_Witness ==
    /\ last.op = "extract" /\ last.out = "already_processed"
    /\ Len(committed.facts) = 2 /\ Len(committed.logics) = 2
    /\ Snapshot = committed


\* the DERIVATION Logic rows of solution s, and the SolutionAssessment rows of s;
\* the clock never runs backwards, so the row inserted last is the latest
DerivationsOf(s) ==
    {l \in DOMAIN logics : logics[l].logic_type = "derivation" /\ logics[l].solution_id = s}
AssessmentRows(s) ==
    {i \in DOMAIN solution_assessments : solution_assessments[i].solution_id = s}
LatestAssessment(s) ==
    solution_assessments[CHOOSE i \in AssessmentRows(s) :
                            \A k \in AssessmentRows(s) : k <= i].verdict

\* C17: a Solution whose DERIVATION Logic names no source Conclusion is only ever
\* assessed PENDING, and its status is PENDING in every state.
C17_NoSourcesStaysPending ==
    \A s \in DOMAIN solutions :
        (/\ DerivationsOf(s) # {}
         /\ \A l \in DerivationsOf(s) : logics[l].source_conclusion_ids = <<>>)
        => /\ solutions[s].status = "pending"
           /\ \A i \in AssessmentRows(s) : solution_assessments[i].verdict = "pending"

\* such a Solution has been assessed in two passes, next to a CONFIRMED conclusion
C17_Witness ==
    \E s \in DOMAIN solutions :
        /\ DerivationsOf(s) # {}
        /\ \A l \in DerivationsOf(s) : logics[l].source_conclusion_ids = <<>>
        /\ Cardinality(AssessmentRows(s)) = 2
        /\ \E c \in DOMAIN conclusions : conclusions[c].status = "confirmed"

\* C18: every Solution that has a SolutionAssessment has the status its latest
\* assessment's verdict gives: CONFIRMED and PARTIAL give VALIDATED, REFUTED
\* INVALIDATED, UNVERIFIABLE UNVERIFIABLE, and PENDING leaves it PENDING.
C18_StatusFromLatestAssessment ==
    \A s \in DOMAIN solutions :
        AssessmentRows(s) # {} =>
            /\ LatestAssessment(s) \in {"confirmed", "partial"}
                  => solutions[s].status = "validated"
            /\ LatestAssessment(s) = "refuted" => solutions[s].status = "invalidated"
            /\ LatestAssessment(s) = "unverifiable" => solutions[s].status = "unverifiable"
            /\ LatestAssessment(s) = "pending" => solutions[s].status = "pending"

\* a Solution VALIDATED by a PARTIAL assessment, after one that left it PENDING
C18_Witness ==
    \E s \in DOMAIN solutions :
        /\ Cardinality(AssessmentRows(s)) = 2
        /\ LatestAssessment(s) = "partial"
        /\ solutions[s].status = "validated"

\* C19: Op 6 writes a SolutionAssessment only for a Solution that is PENDING and
\* whose monitoring_end is set and reached (now >= monitoring_end); on any other
\* Solution it writes nothing and leaves the status as it is.
C19_AssessedOnlyAfterMonitoringEnd ==
    [][\A s \in DOMAIN solutions :
          (/\ last'.op = "derive_solution" /\ last'.id = s
           /\ ~(/\ solutions[s].status = "pending"
                /\ solutions[s].monitoring_end # None
                /\ now >= solutions[s].monitoring_end))
          => /\ solution_assessments' = solution_assessments
             /\ solutions' = solutions]_vars


\* C20: when Op 0 fails for an Author (no LLM response, or one that does not
\* parse), the Author ends with profile_fetched = true and credibility_tier = 5.
C20_FailedProfileTierFive ==
    [][\A a \in DOMAIN authors :
          (last'.op = "profile" /\ last'.id = a /\ ~last'.ok)
          => /\ authors'[a].profile_fetched
             /\ authors'[a].credibility_tier = 5]_vars

\* the half of C20 the code keeps: no fetched Author is profiled in a later pass
C20_FetchedNotProfiledAgain ==
    [][\A a \in DOMAIN authors :
          (last'.op = "profile" /\ last'.id = a) => ~authors[a].profile_fetched]_vars


\* C21: once a committed Author row has a credibility_tier, no step of any
\* operator or pass changes the tier or clears profile_fetched, in the session or
\* in the committed rows; Op 0 writes an Author only while profile_fetched is false.
C21_TierWrittenOnce ==
    [][/\ \A a \in DOMAIN committed.authors :
             committed.authors[a].credibility_tier # None
             => /\ committed.authors[a].profile_fetched
                /\ authors'[a] = committed.authors[a]
                /\ committed'.authors[a] = committed.authors[a]
       /\ \A a \in DOMAIN authors :
             authors'[a] # authors[a] /\ last'.op # "pass_abort"
             => last'.op = "profile" /\ last'.id = a /\ ~authors[a].profile_fetched]_vars

\* a later pass profiles another Author while the first one's tier is committed
C21_Witness ==
    /\ last.op = "profile" /\ last.id = 2
    /\ passes.completed >= 1
    /\ committed.authors[1].credibility_tier \in 1..5


\* the step just taken was an operator's call on one item whose LLM call gave null
NullAnswer(ops) ==
    /\ last'.op \in ops
    /\ IF last'.op = "verify" THEN last'.answer = LlmNone ELSE ~last'.ok

\* C22: in each of Op 1, Op 2+3, Op 4a, Op 4b and Op 7, an item whose LLM call
\* returns null has no field and no row written for it, and it still satisfies
\* the operator's eligibility condition afterwards.
C22_NullWritesNothing ==
    [][/\ NullAnswer({"verify", "evaluate", "setup", "simulate",
                      "evaluate_conclusion_verdict", "evaluate_solution_assessment"})
          => Snapshot' = Snapshot
       /\ NullAnswer({"verify"}) => last'.id \in ActiveFacts'
       /\ NullAnswer({"evaluate"}) => last'.id \in DOMAIN logics'
       /\ NullAnswer({"setup"}) => last'.id \in UnconfiguredConclusions'
       /\ NullAnswer({"simulate"}) => last'.id \in UnconfiguredSolutions'
       /\ NullAnswer({"evaluate_conclusion_verdict"}) => last'.id \in UnevaluatedVerdicts'
       /\ NullAnswer({"evaluate_solution_assessment"})
          => last'.id \in UnevaluatedAssessments']_vars


\* C24: when an unhandled exception escapes a scheduler pass, nothing the pass
\* wrote is committed: the persisted state after the pass is the persisted state
\* before it, and the session holds nothing else.
C24_AbortedPassCommitsNothing ==
    [][(\/ last'.op = "pass_abort"
        \/ last'.op = "assess" /\ last'.out = "raised")
       => committed' = committed /\ Snapshot' = committed]_vars

\* a pass that had written was aborted, and what it wrote is gone
C24_Witness ==
    /\ last.op = "pass_abort" /\ last.dirty
    /\ facts # <<>> /\ fact_evaluations = <<>> /\ conclusion_verdicts = <<>>
    /\ \A a \in DOMAIN authors : ~authors[a].profile_fetched

\* C25: every pass walks the ten operators in order, so Op 5 follows Op 4b: when
\* Step 4b has gone through its items the pass goes on with Step 5.
C25_Op5FollowsOp4b ==
    [][pc = "step4b" /\ pc' \notin {"step4b", "idle"} => pc' = "step5"]_vars


\* C23: an item whose processing fails inside an operator is skipped without
\* raising, and the pass goes on: whatever shape the LLM's JSON has, Op 8 called
\* on a post leaves the pass in Step 8 with the remaining posts still to do.
C23_ItemFailureSkipsItem ==
    [][last'.op = "assess"
       => /\ last'.out # "raised"
          /\ pc' = "step8"
          /\ todo' = todo \ {last'.id}]_vars

\* ------------------------------------------------------------------ C26
\* the base weights, in thousandths
BaseWeights == <<200, 150, 200, 150, 150, 75, 75>>

\* a rate as a whole number of fifteenths
Fifteenths(v) == v[1] * (15 \div v[2])

RECURSIVE SumInts(_)
SumInts(s) == IF s = <<>> THEN 0 ELSE Head(s) + SumInts(Tail(s))

\* C26: the overall score n/d is null exactly when no dimension is available;
\* otherwise it lies in [0,100] and n/d * (sum of the available base weights)
\* equals 100 * (sum of base weight * value over the available dimensions)
C26_OverallIsRenormalisedMean ==
    (call.op = "overall" /\ call.returned) =>
        LET mv == call.metric_values
            avail == {k \in DOMAIN mv : mv[k] # NoScore}
            sumW == SumInts([k \in DOMAIN mv |-> IF k \in avail THEN BaseWeights[k] ELSE 0])
            sumWV == SumInts([k \in DOMAIN mv |->
                                IF k \in avail THEN BaseWeights[k] * Fifteenths(mv[k]) ELSE 0])
            r == call.result
        IN  IF avail = {}
            THEN r = NoScore
            ELSE /\ r[2] > 0
                 /\ 0 <= r[1] /\ r[1] <= 100 * r[2]
                 /\ r[1] * sumW * 15 = r[2] * 100 * sumWV

\* only fact accuracy has a sample, at 0.8: the overall score is 80
C26_Witness ==
    /\ call.op = "overall" /\ call.returned
    /\ call.metric_values[1] = Rat(4, 5)
    /\ \A k \in DOMAIN call.metric_values : k # 1 => call.metric_values[k] = NoScore
    /\ call.result = Rat(80, 1)

\* ------------------------------------------------------------------ C27
\* the AuthorStats rows of author a among rows
StatsRowsOf(rows, a) == {i \in DOMAIN rows : rows[i].author_id = a}

\* no evaluation, verdict, assessment or logic was written since the last commit,
\* and that commit was the one of a pass
NothingChangedSincePass ==
    /\ ~passes.new_posts
    /\ fact_evaluations = committed.fact_evaluations
    /\ conclusion_verdicts = committed.conclusion_verdicts
    /\ solution_assessments = committed.solution_assessments
    /\ post_quality = committed.post_quality
    /\ logics = committed.logics

\* C27: no author ever has two AuthorStats rows, and a run of Op 9 for an author
\* whose row was committed by the previous pass, with no evaluation, verdict,
\* assessment or logic written since, leaves the values, the samples and the
\* overall score of the row as they were
C27_Op9Idempotent ==
    [][/\ \A a \in DOMAIN authors' : Cardinality(StatsRowsOf(author_stats', a)) <= 1
       /\ (/\ last'.op = "update" /\ pc = "step9"
           /\ NothingChangedSincePass
           /\ StatsRowsOf(committed.author_stats, last'.id) # {})
          => \E i \in StatsRowsOf(author_stats', last'.id) :
               \E j \in StatsRowsOf(committed.author_stats, last'.id) :
                  /\ author_stats'[i].values = committed.author_stats[j].values
                  /\ author_stats'[i].samples = committed.author_stats[j].samples
                  /\ author_stats'[i].overall_credibility_score
                       = committed.author_stats[j].overall_credibility_score]_vars

\* Op 9 has just run again for an author whose committed row has a fact accuracy,
\* in a pass that wrote nothing
C27_Witness ==
    /\ last.op = "update" /\ passes.completed >= 1
    /\ NothingChangedSincePass
    /\ \E j \in StatsRowsOf(committed.author_stats, last.id) :
          /\ committed.author_stats[j].samples[1] > 0
          /\ committed.author_stats[j].last_updated < now
          /\ \E i \in StatsRowsOf(author_stats, last.id) : author_stats[i].last_updated = now

\* ------------------------------------------------------------------ C28
\* the edges of the LLM output whose two ids are distinct Logics of the call
ValidEdges ==
    IF call.answer.kind # "parsed" THEN <<>>
    ELSE SelectSeq(call.answer.relations,
                   LAMBDA r : /\ {r.from_logic_id, r.to_logic_id} \subseteq call.logic_ids
                              /\ r.from_logic_id # r.to_logic_id)

\* C28: every LogicRelation row written joins two different Logics of the set
\* given to the mapper, and the rows are the valid edges of the LLM output, in
\* order, the other edges dropped
C28_OnlyValidEdgesWritten ==
    (call.op = "map" /\ call.returned) =>
        /\ \A k \in DOMAIN call.relations :
              /\ call.relations[k].from_logic_id # call.relations[k].to_logic_id
              /\ call.relations[k].from_logic_id \in call.logic_ids
              /\ call.relations[k].to_logic_id \in call.logic_ids
        /\ Len(call.relations) = Len(ValidEdges)
        /\ \A k \in DOMAIN call.relations :
              /\ call.relations[k].from_logic_id = ValidEdges[k].from_logic_id
              /\ call.relations[k].to_logic_id = ValidEdges[k].to_logic_id

\* a self-edge followed by a valid edge: the first is dropped, the second written
C28_Witness ==
    /\ call.op = "map" /\ call.returned
    /\ call.answer.kind = "parsed" /\ Len(call.answer.relations) = 2
    /\ call.answer.relations[1].from_logic_id = call.answer.relations[1].to_logic_id
    /\ call.answer.relations[1].from_logic_id \in call.logic_ids
    /\ Len(call.relations) = 1
    /\ call.relations[1].from_logic_id = call.answer.relations[2].from_logic_id

\* ------------------------------------------------------------------ C29
\* the PostQualityAssessment rows of post p among rows
AssessmentsOf(rows, p) == {i \in DOMAIN rows : rows[i].raw_post_id = p}

\* C29: no RawPost ever has two PostQualityAssessment rows, and a run of Op 8 on a
\* post that has its row leaves the table as it is
C29_OneAssessmentPerPost ==
    [][/\ \A p \in DOMAIN RawPosts' : Cardinality(AssessmentsOf(post_quality', p)) <= 1
       /\ (last'.op = "assess" /\ pc = "step8" /\ AssessmentsOf(post_quality, last'.id) # {})
          => post_quality' = post_quality]_vars

\* the second pass has run Op 8 on the post the first pass assessed
C29_Witness ==
    /\ last.op = "assess" /\ pc = "step8" /\ passes.completed >= 1
    /\ Cardinality(AssessmentsOf(committed.post_quality, last.id)) = 1
    /\ post_quality = committed.post_quality

\* ------------------------------------------------------------------ C30
\* another author's post holds a Fact with a canonical claim of post p
SharedByAnotherAuthor(p) ==
    \E f \in DOMAIN facts :
       /\ facts[f].raw_post_id # p
       /\ RawPosts[facts[f].raw_post_id].author_platform_id # RawPosts[p].author_platform_id
       /\ \E g \in DOMAIN facts : /\ facts[g].raw_post_id = p
                                  /\ facts[g].canonical_claim = facts[f].canonical_claim

\* C30 as stated: when Op 8 runs again for the first author's post after a later
\* post of another author shared its canonical claim, the post's stored row has
\* similar_author_count 1, uniqueness_score 1/1.4 and is_first_mover true
C30_RerunCountsOtherAuthor ==
    [][(/\ last'.op = "assess" /\ pc = "step8" /\ last'.id = 1
        /\ AssessmentsOf(post_quality, 1) # {}
        /\ SharedByAnotherAuthor(1))
       => \A i \in AssessmentsOf(post_quality', 1) :
             /\ post_quality'[i].similar_author_count = 1
             /\ post_quality'[i].uniqueness_score = Rat(10, 14)
             /\ post_quality'[i].is_first_mover]_vars

\* what does hold: no step, a later run of Op 8 included, changes a stored row
C30_StoredRowNeverChanges ==
    [][\A i \in DOMAIN post_quality \cap DOMAIN post_quality' :
          post_quality'[i] = post_quality[i]]_vars

\* ------------------------------------------------------------------ context_enricher.py
\* a text is a sequence of tokens; NoText is an Optional[str] that is None
NoText == <<NULL>>
Truthy(t) == t # NoText /\ t # <<>>

\* a plausible slip: a post that is born processed
RawPost_processed(source, content) ==
    [source |-> source, content |-> content, enriched_content |-> NoText,
     context_fetched |-> FALSE, has_context |-> FALSE,
     is_processed |-> TRUE, processed_at |-> None]

\* models.RawPost(...) as the collectors construct it: the columns enrich and
\* extract read, the others at their defaults
RawPost(source, content) ==
    [source |-> source, content |-> content, enriched_content |-> NoText,
     context_fetched |-> FALSE, has_context |-> FALSE,
     is_processed |-> FALSE, processed_at |-> None]

\* what the platform answers to a fetch: context pieces (by role) and, on weibo,
\* a long text that may be longer than the content
MaxPieces == 2
Fetches ==
    [pieces : SeqsUpTo({"quoted", "thread_next"}, MaxPieces),
     long_text : {<<>>, <<"l", "l">>}]

\* _enrich_twitter / _enrich_weibo: the pieces they return
Pieces(post, fetch) ==
    CASE post.source = "twitter" -> fetch.pieces
      [] post.source = "weibo" -> SelectSeq(fetch.pieces, LAMBDA r : r = "quoted")
      [] OTHER -> <<>>

\* _enrich_weibo replaces the content by a longer long text
ContentAfterFetch(post, fetch) ==
    IF post.source = "weibo" /\ fetch.long_text # <<>>
       /\ Len(fetch.long_text) > Len(post.content)
    THEN fetch.long_text ELSE post.content

\* _assemble: the context before, the main content, the thread's continuation
_assemble(main_content, pieces) ==
    SelectSeq(pieces, LAMBDA r : r \in {"quoted", "parent_reply", "thread_prev"})
    \o <<"main">> \o main_content
    \o SelectSeq(pieces, LAMBDA r : r = "thread_next")

\* the RawPost after a fetching run of enrich at time t
Enriched(post, fetch, t) ==
    LET pieces == Pieces(post, fetch)
        content == ContentAfterFetch(post, fetch)
    IN  [post EXCEPT !.content = content,
                     !.context_fetched = TRUE,
                     !.has_context = pieces # <<>>,
                     !.enriched_content = IF pieces # <<>> THEN _assemble(content, pieces)
                                          ELSE content,
                     !.processed_at = t]

\* a plausible slip: the context_fetched test left out
enrich_refetch(post, fetch, t) ==
    [raw_post |-> Enriched(post, fetch, t),
     fetched |-> post.source \in {"twitter", "weibo"},
     text |-> Enriched(post, fetch, t).enriched_content]

\* enrich: the RawPost after it, whether it fetched, and the text it returns
enrich(post, fetch, t) ==
    IF post.context_fetched
    THEN [raw_post |-> post, fetched |-> FALSE,
          text |-> IF Truthy(post.enriched_content) THEN post.enriched_content
                   ELSE post.content]
    ELSE [raw_post |-> Enriched(post, fetch, t),
          fetched |-> post.source \in {"twitter", "weibo"},
          text |-> Enriched(post, fetch, t).enriched_content]

\* ------------------------------------------------------------------ SpecEnrich
\* a newly collected post, and the calls of enrich and extract on it
MaxCalls == 3
RawPostCalls ==
    [op : {"raw_post"},
     raw_post : {RawPost(source, content) :
                    source \in {"twitter", "weibo", "rss"}, content \in {<<>>, <<"c">>}},
     fetches : {0},
     returned : {<<>>},
     extracts : {0}]

InitEnrich ==
    /\ call \in RawPostCalls
    /\ InitDb

CallEnrich ==
    /\ call.op = "raw_post" /\ Len(call.returned) < MaxCalls
    /\ \E fetch \in Fetches :
          LET r == enrich(call.raw_post, fetch, now)
          IN  call' = [call EXCEPT !.raw_post = r.raw_post,
                                   !.fetches = @ + (IF r.fetched THEN 1 ELSE 0),
                                   !.returned = Append(@, r.text)]
    /\ last' = [op |-> "enrich"]
    /\ UNCHANGED <<now, tables, pc, todo, active_facts, committed, ext, passes>>

\* Extractor.extract, as far as the RawPost goes: it returns at once on a processed
\* post; the LLM fails and nothing is written, or the post is marked processed
CallExtract ==
    /\ call.op = "raw_post" /\ call.extracts < MaxCalls
    /\ \E answer \in {"llm_none", "parsed"} :
          IF call.raw_post.is_processed
          THEN /\ call' = [call EXCEPT !.extracts = @ + 1]
               /\ last' = [op |-> "extract", out |-> "already_processed"]
          ELSE IF answer = "llm_none"
          THEN /\ call' = [call EXCEPT !.extracts = @ + 1]
               /\ last' = [op |-> "extract", out |-> "none"]
          ELSE /\ call' = [call EXCEPT !.extracts = @ + 1,
                                       !.raw_post.is_processed = TRUE,
                                       !.raw_post.processed_at = now]
               /\ last' = [op |-> "extract", out |-> "committed"]
    /\ UNCHANGED <<now, tables, pc, todo, active_facts, committed, ext, passes>>

NextEnrich == CallEnrich \/ CallExtract \/ Tick

SpecEnrich == InitEnrich /\ [][NextEnrich]_vars

\* ------------------------------------------------------------------ C31
\* C31: a call of enrich on a post whose context_fetched is set fetches nothing,
\* leaves the post as it is and returns the text the first call returned
C31_EnrichIdempotent ==
    [][(call.op = "raw_post" /\ last'.op = "enrich" /\ call.raw_post.context_fetched)
       => /\ call'.fetches = call.fetches
          /\ call'.raw_post = call.raw_post
          /\ call'.returned[Len(call'.returned)] = call.returned[1]]_vars

\* enrich has run three times on a weibo post whose long text replaced the content;
\* an extraction marked the post in between
C31_Witness ==
    /\ call.op = "raw_post" /\ last.op = "enrich" /\ Len(call.returned) = 3
    /\ call.raw_post.source = "weibo" /\ call.raw_post.has_context
    /\ call.raw_post.content = <<"l", "l">>
    /\ call.raw_post.is_processed
    /\ call.fetches = 1

\* ------------------------------------------------------------------ C32
\* C32: a post nothing has been called on has is_processed and context_fetched
\* false; the first enrich on it runs the enrichment (and fetches, where the
\* source has a fetcher) and the first extract on it does not skip it
C32_NewPostEligible ==
    [][(call.op = "raw_post" /\ call.returned = <<>> /\ call.extracts = 0)
       => /\ ~call.raw_post.is_processed /\ ~call.raw_post.context_fetched
          /\ last'.op = "enrich"
               => /\ call'.raw_post.context_fetched
                  /\ call.raw_post.source \in {"twitter", "weibo"} => call'.fetches = 1
          /\ last'.op = "extract" => last'.out # "already_processed"]_vars

\* the first call on a new post was an extraction, and it marked the post
C32_Witness ==
    /\ call.op = "raw_post" /\ call.returned = <<>> /\ call.extracts = 1
    /\ last.op = "extract" /\ last.out = "committed"
    /\ call.raw_post.is_processed /\ ~call.raw_post.context_fetched

\* ------------------------------------------------------------------ C33
\* the conclusions that have an inference Logic, and those that have a verdict
WithInference == {c \in DOMAIN conclusions : _load_inference_logic(c) # {}}
WithVerdict == {conclusion_verdicts[i].conclusion_id : i \in DOMAIN conclusion_verdicts}

\* C33 as stated, over the passes of the run: when a pass has committed after the
\* post was extracted, every retrospective Conclusion with an inference Logic has
\* a ConclusionVerdict; when two have, so has every predictive one whose
\* monitoring_end was reached before the second pass started
C33_EveryConclusionGetsVerdict ==
    (pc = "idle" /\ ~passes.new_posts) =>
        \A c \in WithInference :
           /\ (conclusions[c].conclusion_type = "retrospective" /\ passes.completed >= 1)
                 => c \in WithVerdict
           /\ (/\ conclusions[c].conclusion_type = "predictive" /\ passes.completed >= 2
               /\ conclusions[c].monitoring_end # None
               /\ conclusions[c].monitoring_end <= MaxTime)
                 => c \in WithVerdict

\* ------------------------------------------------------------------ C34
\* the latest verdict of each of the given conclusions that has one, by id
RECURSIVE LatestVerdictsOf(_)
LatestVerdictsOf(conc_ids) ==
    IF conc_ids = {} THEN <<>>
    ELSE LET c == First(conc_ids)
         IN  (IF VerdictRows(c) # {} THEN <<LatestVerdict(c)>> ELSE <<>>)
             \o LatestVerdictsOf(conc_ids \ {c})

\* C34 as stated: the verdict of a SolutionAssessment Op 6 writes is the aggregate
\* of the latest ConclusionVerdict of each source Conclusion, one per Conclusion
C34_OneVerdictPerSource ==
    [][(last'.op = "derive_solution" /\ Len(solution_assessments') > Len(solution_assessments))
       => \E l \in DerivationsOf(last'.id) :
             LET latest == LatestVerdictsOf(Range(logics[l].source_conclusion_ids))
             IN  solution_assessments'[Len(solution_assessments')].verdict
                   = IF latest = <<>> THEN "pending"
                     ELSE _aggregate_solution_verdict(latest)]_vars

\* ------------------------------------------------------------------ SpecVerify
\* the facts the extractor found in the post: with or without a validity window
\* that opens late or closes early
WindowFacts ==
    [canonical_claim : {"k"}, is_verifiable : BOOLEAN,
     validity_start_note : {None, MaxTime}, validity_end_note : {None, 0}]

\* a database after the extraction of one post: its Author and two Facts
InitVerify ==
    /\ call = NoCall
    /\ raw_post = [is_processed |-> TRUE, author_platform_id |-> "u1", posted_at |-> 0]
    /\ authors = <<NewAuthor("u1")>>
    /\ \E ef1 \in WindowFacts, ef2 \in WindowFacts :
          facts = <<_save_fact(ef1, 1), _save_fact(ef2, 1)>>
    /\ now = 0
    /\ other_posts = <<>>
    /\ conclusions = <<>>
    /\ solutions = <<>>
    /\ logics = <<>>
    /\ fact_evaluations = <<>>
    /\ conclusion_verdicts = <<>>
    /\ solution_assessments = <<>>
    /\ post_quality = <<>>
    /\ author_stats = <<>>
    /\ pc = "idle"
    /\ todo = {}
    /\ active_facts = {}
    /\ ext = NoExt
    /\ last = [op |-> "none"]
    /\ passes = [completed |-> 0, ended_at |-> -1, new_posts |-> TRUE,
                 repeat |-> FALSE, start |-> PassStartRecord]
    /\ committed = Snapshot

\* the passes on that database: Steps 4a to 6 select nothing
NextVerify ==
    \/ PassStart
    \/ Step1Verify
    \/ Step1Done
    \/ Step4aDone
    \/ Step4bDone
    \/ Step6ConclusionsDone
    \/ Step6SolutionsDone
    \/ Step8Assess(NoEffectiveness)
    \/ Step8Done
    \/ Step9Update
    \/ PassCommit
    \/ PassAbort
    \/ Tick

SpecVerify == InitVerify /\ [][NextVerify]_vars

\* ------------------------------------------------------------------ C35
\* the FactEvaluation rows of fact f among rows
EvaluationsOf(rows, f) == {i \in DOMAIN rows : rows[i].fact_id = f}

ClaimsOfPost(p) ==
    {facts[f].canonical_claim : f \in {g \in DOMAIN facts : facts[g].raw_post_id = p}}
    \cup {conclusions[c].canonical_claim :
            c \in {d \in DOMAIN conclusions : conclusions[d].source_url = p}}
AuthorsClaiming(claims) ==
    {a \in DOMAIN authors :
        \/ \E f \in DOMAIN facts :
              /\ facts[f].canonical_claim \in claims
              /\ authors[a].platform_id = RawPosts[facts[f].raw_post_id].author_platform_id
        \/ \E c \in DOMAIN conclusions :
              /\ conclusions[c].canonical_claim \in claims
              /\ conclusions[c].author_id = a}

\* C36 as stated: the similar_author_count Op 8 writes for a post is the number of
\* Authors, other than the post's, who made one of its canonical claims in a Fact
\* or in a Conclusion, each counted once
C36_CountsDistinctAuthors ==
    [][(last'.op = "assess" /\ Len(post_quality') > Len(post_quality))
       => post_quality'[Len(post_quality')].similar_author_count
            = Cardinality(AuthorsClaiming(ClaimsOfPost(last'.id) \ {NULL})
                          \ {PostAuthor(last'.id)})]_vars

\* ------------------------------------------------------------------ C37
\* the statuses of a Conclusion that close it
ClosedConclusionStatuses == {"confirmed", "refuted", "unverifiable"}

\* C37 as stated: no step of a pass changes the status of a Conclusion that is
\* CONFIRMED, REFUTED or UNVERIFIABLE
C37_ClosedConclusionKeepsStatus ==
    [][last'.op = "derive_conclusion"
       => \A c \in DOMAIN conclusions :
             conclusions[c].status \in ClosedConclusionStatuses
                => conclusions'[c].status = conclusions[c].status]_vars

\* ------------------------------------------------------------------ C38
\* C38 as stated: Op 4a and Op 4b never change a monitoring_end that is set
C38_MonitoringEndWrittenOnce ==
    [][/\ last'.op = "setup"
          => \A c \in DOMAIN conclusions :
                conclusions[c].monitoring_end # None
                   => conclusions'[c].monitoring_end = conclusions[c].monitoring_end
       /\ last'.op = "simulate"
          => \A s \in DOMAIN solutions :
                solutions[s].monitoring_end # None
                   => solutions'[s].monitoring_end = solutions[s].monitoring_end]_vars

\* ------------------------------------------------------------------ C39
\* C39 as stated: in every AuthorStats row the samples of conclusion accuracy and
\* of prediction accuracy are at most the number of the author's Conclusions
C39_OneVerdictPerConclusionCounted ==
    \A i \in DOMAIN author_stats :
       LET mine == {c \in DOMAIN conclusions :
                       conclusions[c].author_id = author_stats[i].author_id}
       IN  /\ author_stats[i].samples[2] <= Cardinality(mine)
           /\ author_stats[i].samples[3] <= Cardinality(mine)

\* ------------------------------------------------------------------ extractor.py, _get_or_create_topic under two sessions
\* Two extractions of different posts, each in a session (transaction) of its own.
\* call.topics is the committed topics table; a session's flushed rows are its
\* `pending`, seen by that session alone until it commits. topics.name is unique.
MaxTopicRefs == 2
TopicNames == {"s", "t"}

\* an extraction about to resolve the topics of its conclusions and solutions
SessionStarts ==
    [names : SeqsUpTo(TopicNames, MaxTopicRefs) \ {<<>>}, i : {1}, pc : {"select"},
     pending : {<<>>}, out : {"running"}]

TopicCalls ==
    [op : {"topics"}, existing : {<<>>, <<"s">>}, topics : {<<>>, <<"s">>},
     sessions : [1..2 -> SessionStarts]]

InitTopics ==
    /\ call \in {c \in TopicCalls : c.topics = c.existing}
    /\ InitDb

\* the extraction goes on to its next conclusion or solution, or to its commit
NextTopicRef(s) ==
    IF s.i < Len(s.names) THEN [s EXCEPT !.i = @ + 1, !.pc = "select"]
    ELSE [s EXCEPT !.pc = "commit"]

\* an exception leaves extract: nothing of the session is committed
Raised(s, error) == [s EXCEPT !.pc = "done", !.pending = <<>>, !.out = error]

\* _get_or_create_topic, the select: the rows the session sees are the committed
\* ones and its own
SelectTopic ==
    /\ call.op = "topics"
    /\ \E e \in 1..2 :
          LET s == call.sessions[e]
              found == s.names[s.i] \in Range(call.topics) \cup Range(s.pending)
          IN  /\ s.pc = "select"
              /\ call' = [call EXCEPT !.sessions[e] =
                            IF found THEN NextTopicRef(s) ELSE [s EXCEPT !.pc = "insert"]]
              /\ last' = [op |-> "select_topic", id |-> e, found |-> found]
    /\ UNCHANGED <<now, tables, pc, todo, active_facts, committed, ext, passes>>

\* _get_or_create_topic, session.add and flush. A committed row of that name breaks
\* the unique index. While the other session holds uncommitted writes the
\* database decides: the insert waits (no step), fails as locked, or, under row
\* locks and with a name the other session did not insert, goes through
InsertTopic ==
    /\ call.op = "topics"
    /\ \E e \in 1..2 :
          LET s == call.sessions[e]
              other == call.sessions[3 - e]
              name == s.names[s.i]
              inserted == NextTopicRef([s EXCEPT !.pending = Append(@, name)])
          IN  /\ s.pc = "insert"
              /\ \E after \in
                    IF name \in Range(call.topics)
                    THEN {Raised(s, "IntegrityError")}
                    ELSE IF other.pending # <<>>
                    THEN {Raised(s, "OperationalError")}
                         \cup (IF name \in Range(other.pending) THEN {} ELSE {inserted})
                    ELSE {inserted} :
                    /\ call' = [call EXCEPT !.sessions[e] = after]
                    /\ last' = [op |-> "insert_topic", id |-> e, out |-> after.out]
    /\ UNCHANGED <<now, tables, pc, todo, active_facts, committed, ext, passes>>

\* the end of extract: session.commit publishes the session's rows
CommitExtraction ==
    /\ call.op = "topics"
    /\ \E e \in 1..2 :
          LET s == call.sessions[e]
          IN  /\ s.pc = "commit"
              /\ call' = [call EXCEPT !.topics = @ \o s.pending,
                                      !.sessions[e] = [s EXCEPT !.pc = "done",
                                                                !.pending = <<>>,
                                                                !.out = "committed"]]
              /\ last' = [op |-> "commit", id |-> e]
    /\ UNCHANGED <<now, tables, pc, todo, active_facts, committed, ext, passes>>

NextTopics == SelectTopic \/ InsertTopic \/ CommitExtraction

SpecTopics == InitTopics /\ [][NextTopics]_vars

\* ------------------------------------------------------------------ C40
\* the Topic names both extractions reference and that no row had at the start
SharedNewTopics ==
    (Range(call.sessions[1].names) \cap Range(call.sessions[2].names))
    \ Range(call.existing)
BothExtractionsEnded == \A e \in 1..2 : call.sessions[e].pc = "done"

\* C40 as stated: once two interleaved extractions that reference the same new
\* Topic name have ended, there is exactly one Topic row of that name and both
\* extractions have committed
C40_OneTopicBothCommit ==
    (call.op = "topics" /\ BothExtractionsEnded /\ SharedNewTopics # {})
       => /\ \A n \in SharedNewTopics :
                Cardinality({i \in DOMAIN call.topics : call.topics[i] = n}) = 1
          /\ \A e \in 1..2 : call.sessions[e].out = "committed"

\* the half of it that holds: the unique index keeps the names of the committed
\* rows distinct
C40_NoDuplicateTopic ==
    call.op = "topics"
       => \A i, j \in DOMAIN call.topics : call.topics[i] = call.topics[j] => i = j

====
